---------------------------- MODULE Spec2Model ----------------------------
(***************************************************************************)
(* CRAnalyst: the market-data resolution and caching core                  *)
(* (app/market.py) and the JSON user store (app/services/portfolio.py).    *)
(*                                                                         *)
(* Strings are sequences of ASCII codes, so that lower(), strip(),         *)
(* startswith() and sorted() are computed and not assumed.  An absent      *)
(* value (Python's None) is the empty sequence, a present value v is <<v>>.*)
(***************************************************************************)
EXTENDS Integers, Sequences, FiniteSets, TLC

VARIABLES
    clock,            \* time.time()
    symbol_cache,     \* MarketDataService._symbol_cache: ticker -> list of ids
    coin_ids,         \* MarketDataService._coin_ids
    cache_expiry,     \* MarketDataService._cache_expiry
    lastCall,         \* what the most recent call did and returned
    reqLog,           \* the last two list_coins requests: <<[t, ok], ...>>
    overview_cache,   \* MarketDataService._overview_cache: key -> (stored_at, value)
    comparison_cache, \* MarketDataService._comparison_cache: key -> (stored_at, value)
    cacheCall,        \* what the most recent compare_assets / asset_overview call did
    file,             \* the JSON store file: data["users"], user id -> user state
    lock,             \* AgentDataStore._lock: 0 when free, else the holding thread
    spc,              \* per thread: where it is in its store call
    sop,              \* per thread: the call it runs
    sdata,            \* per thread: the local "data" of update_user_state
    sstate,           \* per thread: the local "state" of the service method
    sret,             \* per thread: what the call returned
    nextId,           \* the next uuid4 value
    lastWrite,        \* the thread, user and state of the most recent _write
    disk,             \* what the store's path holds: "json" (the data of file) or not
    rpc,              \* per thread: where it is in _resolve_single_asset
    rasset,           \* per thread: the symbol it resolves
    rnow,             \* per thread: the local "now" of _ensure_registry
    rcoins,           \* per thread: the list_coins() response it holds (0: none)
    seenIds,          \* per thread: the id set read at line 404, None as <<>>
    seenSym,          \* per thread: the ticker table read at line 406, None as <<>>
    rout,             \* per thread: the id returned, None as <<>>
    rcalls            \* the number of resolutions started

regVars == <<symbol_cache, coin_ids, cache_expiry, reqLog>>
cacheVars == <<overview_cache, comparison_cache, cacheCall>>
storeVars == <<file, lock, spc, sop, sdata, sstate, sret, nextId, lastWrite, disk>>
concVars == <<rpc, rasset, rnow, rcoins, seenIds, seenSym, rout, rcalls>>

vars == <<clock, lastCall, regVars, cacheVars, storeVars, concVars>>

---------------------------------------------------------------------------
(* String literals.                                                        *)

s_btc == <<98, 116, 99>>
s_eth == <<101, 116, 104>>
s_sol == <<115, 111, 108>>
s_bitcoin == <<98, 105, 116, 99, 111, 105, 110>>
s_ethereum == <<101, 116, 104, 101, 114, 101, 117, 109>>
s_solana == <<115, 111, 108, 97, 110, 97>>
s_BTC == <<66, 84, 67>>
s_UNKNOWNCOIN123 == <<85, 78, 75, 78, 79, 87, 78, 67, 79, 73, 78, 49, 50, 51>>
s_unknowncoin123 == <<117, 110, 107, 110, 111, 119, 110, 99, 111, 105, 110, 49, 50, 51>>
s_abc == <<97, 98, 99>>
s_Uni_padded == <<32, 85, 110, 105, 9>>
s_uni == <<117, 110, 105>>
s_link == <<108, 105, 110, 107>>
s_blank == <<32>>
s_empty == <<>>
s_batcat == <<98, 97, 116, 99, 97, 116>>
s_zabc == <<122, 97, 98, 99>>
s_ABCoin == <<65, 66, 67, 111, 105, 110>>
s_abcoin == <<97, 98, 99, 111, 105, 110>>
s_ABC == <<65, 66, 67>>
s_abc_x == <<97, 98, 99, 45, 120>>
s_zuni == <<122, 117, 110, 105>>
s_auni == <<97, 117, 110, 105>>
s_lnk == <<108, 110, 107>>
s_chainlink == <<99, 104, 97, 105, 110, 108, 105, 110, 107>>
s_ghost == <<103, 104, 111, 115, 116>>
s_nosym == <<110, 111, 115, 121, 109>>

---------------------------------------------------------------------------
(* str.lower(), str.strip(), str.startswith(), sorted()[0].                *)

LowerChar(c) == IF c >= 65 /\ c <= 90 THEN c + 32 ELSE c

Lower(s) == [i \in 1..Len(s) |-> LowerChar(s[i])]

IsSpace(c) == c \in {9, 10, 11, 12, 13, 28, 29, 30, 31, 32}

RECURSIVE LStrip(_)
LStrip(s) == IF s # <<>> /\ IsSpace(Head(s)) THEN LStrip(Tail(s)) ELSE s

RECURSIVE RStrip(_)
RStrip(s) ==
    IF s # <<>> /\ IsSpace(s[Len(s)]) THEN RStrip(SubSeq(s, 1, Len(s) - 1)) ELSE s

Strip(s) == RStrip(LStrip(s))

StartsWith(s, prefix) ==
    /\ Len(prefix) <= Len(s)
    /\ \A i \in 1..Len(prefix) : s[i] = prefix[i]

\* a < b in Python's string order (code points, a proper prefix first)
StrLess(a, b) ==
    \E k \in 1..Len(b) :
        /\ k <= Len(a) + 1
        /\ \A i \in 1..(k - 1) : a[i] = b[i]
        /\ (k = Len(a) + 1 \/ a[k] < b[k])

Range(seq) == {seq[i] : i \in 1..Len(seq)}

\* sorted(candidates)[0]
SortedFirst(candidates) ==
    CHOOSE c \in Range(candidates) :
        \A d \in Range(candidates) : c = d \/ StrLess(c, d)

---------------------------------------------------------------------------
(* Program constants.                                                      *)

cache_ttl_seconds == 3600
retry_backoff_seconds == 120

COMMON_ASSET_OVERRIDES ==
    (<<98, 116, 99>> :> <<98, 105, 116, 99, 111, 105, 110>>)
    @@ (<<101, 116, 104>> :> <<101, 116, 104, 101, 114, 101, 117, 109>>)
    @@ (<<115, 111, 108>> :> <<115, 111, 108, 97, 110, 97>>)
    @@ (<<97, 100, 97>> :> <<99, 97, 114, 100, 97, 110, 111>>)
    @@ (<<100, 111, 103, 101>> :> <<100, 111, 103, 101, 99, 111, 105, 110>>)
    @@ (<<109, 97, 116, 105, 99>> :> <<112, 111, 108, 121, 103, 111, 110, 45, 112, 111, 115>>)
    @@ (<<100, 111, 116>> :> <<112, 111, 108, 107, 97, 100, 111, 116>>)
    @@ (<<98, 110, 98>> :> <<98, 105, 110, 97, 110, 99, 101, 99, 111, 105, 110>>)
    @@ (<<120, 114, 112>> :> <<114, 105, 112, 112, 108, 101>>)
    @@ (<<108, 116, 99>> :> <<108, 105, 116, 101, 99, 111, 105, 110>>)

---------------------------------------------------------------------------
(* The upstream coin list: what list_coins() may return.  Outcome 0 is a   *)
(* MarketDataError, outcome i >= 1 is CoinLists[i].                        *)

Coin(id, symbol) == [id |-> id, symbol |-> symbol]

CoinLists ==
    << \* the list of the repository's test stub
       << Coin(s_bitcoin, s_btc), Coin(s_ethereum, s_eth), Coin(s_batcat, s_btc) >>,
       \* colliding tickers, mixed case, entries without id or symbol, an id
       \* that is an override key, an id that is the ticker of another coin
       << Coin(s_zabc, s_abc), Coin(s_ABCoin, s_ABC), Coin(s_abc_x, s_abc),
          Coin(s_zuni, s_uni), Coin(s_auni, s_uni),
          Coin(s_link, s_lnk), Coin(s_chainlink, s_link),
          Coin(s_empty, s_ghost), Coin(s_nosym, s_empty), Coin(s_sol, s_sol) >>,
       \* an empty list
       << >> >>

Outcomes == 0..Len(CoinLists)

---------------------------------------------------------------------------
(* The symbol registry: _ensure_registry, _resolve_single_asset,           *)
(* _pick_candidate, _resolve_assets.  A registry value is the record of    *)
(* the three service fields.                                               *)

EmptyMap == [x \in {} |-> <<>>]

Registry(sc, ids, exp) == [symbol_cache |-> sc, coin_ids |-> ids, cache_expiry |-> exp]

\* lines 431-437, the id set
RECURSIVE BuildIdSet(_)
BuildIdSet(coins) ==
    IF coins = <<>> THEN {}
    ELSE LET coin_id == Lower(Head(coins).id)
         IN  (IF coin_id # <<>> THEN {coin_id} ELSE {}) \cup BuildIdSet(Tail(coins))

\* symbol_map.setdefault(symbol, []).append(coin_id)
SetDefaultAppend(symbol_map, symbol, coin_id) ==
    IF symbol \in DOMAIN symbol_map
    THEN [symbol_map EXCEPT ![symbol] = Append(@, coin_id)]
    ELSE symbol_map @@ (symbol :> <<coin_id>>)

\* lines 431-437, the ticker table, entries taken in the order of the response
RECURSIVE BuildSymbolMap(_, _)
BuildSymbolMap(coins, symbol_map) ==
    IF coins = <<>> THEN symbol_map
    ELSE LET coin_id == Lower(Head(coins).id)
             symbol == Lower(Head(coins).symbol)
         IN  BuildSymbolMap(Tail(coins),
                 IF symbol # <<>> /\ coin_id # <<>>
                 THEN SetDefaultAppend(symbol_map, symbol, coin_id)
                 ELSE symbol_map)

\* the registry is used as it is: now < expiry and the ticker table is non-empty
RegistryFresh(reg, now) ==
    now < reg.cache_expiry /\ DOMAIN reg.symbol_cache # {}

\* a failed refresh that drops the loaded tables
RefreshFailed_Clearing(reg, now) ==
    Registry(EmptyMap, {}, now + retry_backoff_seconds)

\* the except branch of _ensure_registry
RefreshFailed(reg, now) ==
    [reg EXCEPT !.cache_expiry = now + retry_backoff_seconds]

\* lines 429-440
RefreshLoaded(reg, now, coins) ==
    Registry(BuildSymbolMap(coins, EmptyMap), BuildIdSet(coins), now + cache_ttl_seconds)

\* _ensure_registry at time now, when list_coins() would end with outcome.
\* req: "none" (no request), "ok" or "fail".
EnsureRegistry(reg, now, outcome) ==
    IF RegistryFresh(reg, now) THEN [reg |-> reg, req |-> "none"]
    ELSE IF outcome = 0 THEN [reg |-> RefreshFailed(reg, now), req |-> "fail"]
    ELSE [reg |-> RefreshLoaded(reg, now, CoinLists[outcome]), req |-> "ok"]

RECURSIVE FirstWithPrefix(_, _)
FirstWithPrefix(symbol, candidates) ==
    IF candidates = <<>> THEN <<>>
    ELSE IF StartsWith(Head(candidates), symbol) THEN <<Head(candidates)>>
    ELSE FirstWithPrefix(symbol, Tail(candidates))

\* picking the first candidate of the list
PickCandidate_FirstListed(symbol, candidates) == candidates[1]

\* _pick_candidate
PickCandidate(symbol, candidates) ==
    LET hit == FirstWithPrefix(symbol, candidates)
    IN  IF hit # <<>> THEN hit[1] ELSE SortedFirst(candidates)

\* self._symbol_cache.get(asset), None as <<>>
Candidates(reg, asset) ==
    IF asset \in DOMAIN reg.symbol_cache THEN reg.symbol_cache[asset] ELSE <<>>

\* a lookup that reads the ticker table before the id set
LookupAsset_TickerFirst(asset, reg) ==
    IF Candidates(reg, asset) # <<>> THEN PickCandidate(asset, Candidates(reg, asset))
    ELSE asset

\* lines 404-411: the lookup once the registry has been ensured
LookupAsset(asset, reg) ==
    IF asset \in reg.coin_ids THEN asset
    ELSE IF Candidates(reg, asset) = <<>> THEN asset
    ELSE PickCandidate(asset, Candidates(reg, asset))

\* a resolution that consults the registry before the override table
ResolveSingleAsset_RegistryFirst(asset, reg, now, outcome) ==
    LET e == EnsureRegistry(reg, now, outcome)
    IN  IF asset \in e.reg.coin_ids \/ asset \notin DOMAIN COMMON_ASSET_OVERRIDES
        THEN [asset |-> asset, out |-> LookupAsset(asset, e.reg), reg |-> e.reg,
              req |-> e.req, ov |-> FALSE, known |-> asset \in e.reg.coin_ids,
              cands |-> Candidates(e.reg, asset)]
        ELSE [asset |-> asset, out |-> COMMON_ASSET_OVERRIDES[asset], reg |-> e.reg,
              req |-> e.req, ov |-> TRUE, known |-> FALSE, cands |-> <<>>]

\* _resolve_single_asset: the id returned, the registry left behind, and what
\* was consulted (ov: the override table answered; known: asset is a canonical
\* id; cands: the candidate list read)
ResolveSingleAsset(asset, reg, now, outcome) ==
    IF asset \in DOMAIN COMMON_ASSET_OVERRIDES
    THEN [asset |-> asset, out |-> COMMON_ASSET_OVERRIDES[asset], reg |-> reg,
          req |-> "none", ov |-> TRUE, known |-> FALSE, cands |-> <<>>]
    ELSE LET e == EnsureRegistry(reg, now, outcome)
         IN  [asset |-> asset, out |-> LookupAsset(asset, e.reg), reg |-> e.reg,
              req |-> e.req, ov |-> FALSE, known |-> asset \in e.reg.coin_ids,
              cands |-> Candidates(e.reg, asset)]

\* cleaned = [asset.lower().strip() for asset in assets if asset]
RECURSIVE Cleaned(_)
Cleaned(assets) ==
    IF assets = <<>> THEN <<>>
    ELSE (IF Head(assets) # <<>> THEN <<Strip(Lower(Head(assets)))>> ELSE <<>>)
         \o Cleaned(Tail(assets))

\* the loop of _resolve_assets from the i-th cleaned symbol on: the set of the
\* traces it can take, one per way the list_coins() requests it makes can end
\* (outcomes: the ways a request can end)
RECURSIVE ResolveLoop(_, _, _, _, _)
ResolveLoop(cleaned, i, reg, now, outcomes) ==
    IF i > Len(cleaned) THEN {<<>>}
    ELSE UNION {
           LET r == ResolveSingleAsset(cleaned[i], reg, now, outcome)
           IN  {<<r>> \o rest : rest \in ResolveLoop(cleaned, i + 1, r.reg, now, outcomes)}
           : outcome \in
               IF cleaned[i] \in DOMAIN COMMON_ASSET_OVERRIDES \/ RegistryFresh(reg, now)
               THEN {0} ELSE outcomes }

\* _resolve_assets: the per-symbol traces; the result is a trace's out column
ResolveAssets(assets, reg, now, outcomes) ==
    ResolveLoop(Cleaned(assets), 1, reg, now, outcomes)

TraceOut(trace) == [i \in 1..Len(trace) |-> trace[i].out]

FinalRegistry(trace, reg) == IF trace = <<>> THEN reg ELSE trace[Len(trace)].reg

\* the trace without the intermediate registries
Steps(trace) ==
    [i \in 1..Len(trace) |->
        [asset |-> trace[i].asset, out |-> trace[i].out, req |-> trace[i].req,
         ov |-> trace[i].ov, known |-> trace[i].known, cands |-> trace[i].cands]]

\* the list_coins requests of a trace, in order: [t, ok]
RECURSIVE Requests(_, _)
Requests(trace, now) ==
    IF trace = <<>> THEN <<>>
    ELSE (IF Head(trace).req = "none" THEN <<>>
          ELSE <<[t |-> now, ok |-> Head(trace).req = "ok"]>>)
         \o Requests(Tail(trace), now)

\* the last two requests
LastTwo(log) == IF Len(log) <= 2 THEN log ELSE SubSeq(log, Len(log) - 1, Len(log))

CurrentRegistry == Registry(symbol_cache, coin_ids, cache_expiry)

---------------------------------------------------------------------------
(* The sequential specification of the registry: calls run one at a time,  *)
(* time passes between calls.                                              *)

MaxClock == 3720

\* the instants the clock visits: the boundaries of the 120 s back-off and of
\* the 3600 s TTL counted from refreshes at 0 and 120
Instants == {0, 119, 120, 3600, 3720}

\* the argument lists of _resolve_assets
AssetLists ==
    { <<s_BTC>>, <<s_UNKNOWNCOIN123>>, <<s_abc>>, <<s_Uni_padded>>,
      <<s_link, s_UNKNOWNCOIN123>>, <<s_sol>>, <<s_blank>>, <<s_empty>>,
      <<s_BTC, s_eth, s_UNKNOWNCOIN123>>, <<s_abc, s_uni>> }

NoCall ==
    [op |-> "init", input |-> <<>>, steps |-> <<>>, result |-> <<>>, error |-> "none"]

RegistryInit ==
    /\ clock = 0
    /\ symbol_cache = EmptyMap
    /\ coin_ids = {}
    /\ cache_expiry = 0
    /\ lastCall = NoCall
    /\ reqLog = <<>>

Tick ==
    /\ \E t \in Instants : t > clock /\ t <= MaxClock /\ clock' = t
    /\ UNCHANGED <<lastCall, regVars, cacheVars, storeVars, concVars>>

\* the registry fields after a resolution with this trace
RegistryAfter(trace) ==
    LET reg == FinalRegistry(trace, CurrentRegistry)
    IN  /\ symbol_cache' = reg.symbol_cache
        /\ coin_ids' = reg.coin_ids
        /\ cache_expiry' = reg.cache_expiry

\* the registry fields and the request log after a resolution with this trace
Resolved(trace) ==
    /\ RegistryAfter(trace)
    /\ reqLog' = LastTwo(reqLog \o Requests(trace, clock))

\* MarketDataService._resolve_assets(assets)
ResolveAssetsCall ==
    \E assets \in AssetLists :
      \E trace \in ResolveAssets(assets, CurrentRegistry, clock, Outcomes) :
        /\ Resolved(trace)
        /\ lastCall' = [op |-> "resolve_assets", input |-> assets,
                        steps |-> Steps(trace), result |-> TraceOut(trace),
                        error |-> "none"]
        /\ UNCHANGED <<clock, cacheVars, storeVars, concVars>>

RegistryNext == Tick \/ ResolveAssetsCall

---------------------------------------------------------------------------
(* The public entry points that resolve their argument: resolve_symbol and *)
(* summarize_prices.                                                       *)

\* the arguments of resolve_symbol
SymbolArgs == {s_BTC, s_UNKNOWNCOIN123, s_Uni_padded, s_blank, s_empty}

\* the arguments of summarize_prices
PriceArgs ==
    { <<>>, <<s_empty>>, <<s_blank>>, <<s_empty, s_blank>>, <<s_BTC, s_eth>>,
      <<s_abc>>, <<s_blank, s_BTC>> }

\* the outcomes of get_simple_price: 0 is a MarketDataError
PriceOutcomes == {0, 1}

\* the list_coins requests a resolution issued, in order
RECURSIVE ListCoinsIssued(_)
ListCoinsIssued(trace) ==
    IF trace = <<>> THEN <<>>
    ELSE (IF Head(trace).req = "none" THEN <<>> ELSE <<"list_coins">>)
         \o ListCoinsIssued(Tail(trace))

\* MarketDataService.resolve_symbol(asset)
ResolveSymbolCall ==
    \E asset \in SymbolArgs :
      \E trace \in ResolveAssets(<<asset>>, CurrentRegistry, clock, Outcomes) :
        /\ Resolved(trace)
        /\ lastCall' =
             IF TraceOut(trace) = <<>>
             THEN [op |-> "resolve_symbol", input |-> <<asset>>, steps |-> Steps(trace),
                   result |-> <<>>, error |-> "ValueError",
                   upstream |-> ListCoinsIssued(trace)]
             ELSE [op |-> "resolve_symbol", input |-> <<asset>>, steps |-> Steps(trace),
                   result |-> <<TraceOut(trace)[1]>>, error |-> "none",
                   upstream |-> ListCoinsIssued(trace)]
        /\ UNCHANGED <<clock, cacheVars, storeVars, concVars>>

\* MarketDataService.summarize_prices(assets, currency); the result is the
\* list of ids the quotes were requested for
SummarizePricesCall ==
    \E assets \in PriceArgs, price \in PriceOutcomes :
      \E trace \in ResolveAssets(assets, CurrentRegistry, clock, Outcomes) :
        /\ Resolved(trace)
        /\ lastCall' =
             IF TraceOut(trace) = <<>>
             THEN [op |-> "summarize_prices", input |-> assets, steps |-> Steps(trace),
                   result |-> <<>>, error |-> "ValueError",
                   upstream |-> ListCoinsIssued(trace)]
             ELSE [op |-> "summarize_prices", input |-> assets, steps |-> Steps(trace),
                   result |-> IF price = 0 THEN <<>> ELSE TraceOut(trace),
                   error |-> IF price = 0 THEN "MarketDataError" ELSE "none",
                   upstream |-> ListCoinsIssued(trace) \o <<"simple_price">>]
        /\ UNCHANGED <<clock, cacheVars, storeVars, concVars>>

\* how a request to the provider may end
RequestOutcomes == {"ok", "transport_error", "http_status", "invalid_json"}

\* CoinGeckoClient._request, lines 43-59: the exception it raises
RequestError(outcome) == IF outcome = "ok" THEN "none" ELSE "MarketDataError"

\* the arguments of fundamentals_snapshot
SnapshotArgs == {s_BTC, s_empty}

\* the price series of the charts the provider may return with status 200
ChartPrices == {<<>>, <<7, 5, 6>>}

\* _stats of fundamentals_snapshot, without the average; None is <<>>
Stats(series) ==
    IF series = <<>> THEN [min |-> <<>>, max |-> <<>>]
    ELSE [min |-> <<CHOOSE x \in Range(series) : \A y \in Range(series) : x <= y>>,
          max |-> <<CHOOSE x \in Range(series) : \A y \in Range(series) : x >= y>>]

\* fundamentals_snapshot once the argument has been resolved: resolved[0],
\* the chart request, and the snapshot
SnapshotOf(resolved, outcome, prices) ==
    IF resolved = <<>> THEN [error |-> "IndexError", result |-> <<>>, upstream |-> <<>>]
    ELSE IF RequestError(outcome) # "none"
    THEN [error |-> RequestError(outcome), result |-> <<>>,
          upstream |-> <<"market_chart">>]
    ELSE [error |-> "none",
          result |-> <<[asset |-> resolved[1], price_stats |-> Stats(prices)]>>,
          upstream |-> <<"market_chart">>]

\* MarketDataService.fundamentals_snapshot(asset, currency)
FundamentalsSnapshotCall ==
    \E asset \in SnapshotArgs, outcome \in RequestOutcomes :
     \E prices \in IF outcome = "ok" THEN ChartPrices ELSE {<<>>} :
      \E trace \in ResolveAssets(<<asset>>, CurrentRegistry, clock, Outcomes) :
        LET snapshot == SnapshotOf(TraceOut(trace), outcome, prices)
        IN  /\ Resolved(trace)
            /\ lastCall' =
                 [op |-> "fundamentals_snapshot", input |-> <<asset>>,
                  steps |-> Steps(trace), result |-> snapshot.result,
                  error |-> snapshot.error,
                  upstream |-> ListCoinsIssued(trace) \o snapshot.upstream,
                  outcome |-> outcome]
            /\ UNCHANGED <<clock, cacheVars, storeVars, concVars>>

EntryNext == Tick \/ ResolveSymbolCall \/ SummarizePricesCall \/ FundamentalsSnapshotCall


---------------------------------------------------------------------------
(* The response caches: compare_assets and asset_overview.                 *)

overview_cache_ttl == 60
comparison_cache_ttl == 60

s_usd == <<117, 115, 100>>

\* what the simple/price endpoint may return: asset id -> price in the
\* currency.  Outcome 0 of a request is a MarketDataError, outcome v >= 1
\* is the data of version v.
PricePayloads ==
    << (s_bitcoin :> 100) @@ (s_ethereum :> 40) @@ (s_solana :> 0),
       (s_bitcoin :> 110) @@ (s_ethereum :> 50) >>

\* market_data.current_price[currency] of the coin detail, per version
DetailPrices == <<99, 109>>

Versions == 1..Len(PricePayloads)

\* dict.get(key): <<v>> when present, <<>> (None) otherwise
DictGet(dict, key) == IF key \in DOMAIN dict THEN <<dict[key]>> ELSE <<>>

\* lines 261-274: one MarketComparison
Comparison(base_id, target_id, quotes) ==
    LET base_quote == DictGet(quotes, base_id)
        target_quote == DictGet(quotes, target_id)
    IN  [base |-> base_id, target |-> target_id,
         base_price |-> base_quote, target_price |-> target_quote,
         spread |-> IF base_quote # <<>> /\ target_quote # <<>> /\ target_quote[1] # 0
                    THEN <<base_quote[1] - target_quote[1]>> ELSE <<>>]

Min(a, b) == IF a <= b THEN a ELSE b

\* the loop over zip(targets, target_ids)
Comparisons(base_id, targets, target_ids, quotes) ==
    [i \in 1..Min(Len(targets), Len(target_ids)) |->
        Comparison(base_id, target_ids[i], quotes)]

\* a fallback that serves an entry of any age
ServeCachedOnError_AnyAge(cached, now) == cached # <<>>

\* no fallback at all
ServeCachedOnError_Never(cached, now) == FALSE

\* the fallback test of the except branch: cached and now - cached[0] < ttl
ServeCachedOnError(cached, now) ==
    cached # <<>> /\ now - cached[1].at < comparison_cache_ttl

\* an overview cache that is never read
OverviewFresh_Never(cached, now) == FALSE

\* the test before recomputing an overview: cached and now - cached[0] < ttl
OverviewFresh(cached, now) ==
    cached # <<>> /\ now - cached[1].at < overview_cache_ttl

\* cache[key] = (now, value)
Store(cache, key, now, value) ==
    IF key \in DOMAIN cache THEN [cache EXCEPT ![key] = [at |-> now, value |-> value]]
    ELSE cache @@ (key :> [at |-> now, value |-> value])

ListCoinsRequests(trace) ==
    [i \in 1..Len(Requests(trace, 0)) |-> "list_coins"]

NoCacheCall ==
    [op |-> "init", key |-> <<>>, now |-> 0, pre |-> <<>>, outcome |-> "none",
     source |-> "none", value |-> <<>>, requests |-> <<>>, failed |-> FALSE]

CacheInit ==
    /\ overview_cache = EmptyMap
    /\ comparison_cache = EmptyMap
    /\ cacheCall = NoCacheCall

MaxCacheClock == 90

CacheInstants == {0, 30, 60, 90}

\* how a list_coins() request can end here: an error, or the stub's list
CacheOutcomes == {0, 1}

CompareArgs == { [base |-> s_BTC, targets |-> <<s_eth, s_sol>>] }

OverviewArgs == {s_UNKNOWNCOIN123}

lookback_days == 7

CacheTick ==
    /\ \E t \in CacheInstants : t > clock /\ t <= MaxCacheClock /\ clock' = t
    /\ UNCHANGED <<lastCall, regVars, cacheVars, storeVars, concVars>>

\* compare_assets(args.base, args.targets, currency); resolved[0] raises
\* IndexError when nothing is left of the arguments
CompareAssetsOn(args) ==
      \E trace \in ResolveAssets(<<args.base>> \o args.targets, CurrentRegistry,
                               clock, CacheOutcomes) :
       IF TraceOut(trace) = <<>>
       THEN /\ RegistryAfter(trace)
            /\ cacheCall' = [op |-> "compare_assets", args |-> args, key |-> <<>>,
                             now |-> clock, pre |-> <<>>, requests |-> <<>>,
                             failed |-> FALSE, outcome |-> "IndexError",
                             source |-> "none", value |-> <<>>]
            /\ UNCHANGED <<clock, lastCall, reqLog, overview_cache, comparison_cache,
                           storeVars, concVars>>
       ELSE
        \E price \in {0} \cup Versions :
          LET resolved == TraceOut(trace)
              base_id == resolved[1]
              target_ids == Tail(resolved)
              cache_key == <<base_id, target_ids, s_usd>>
              now == clock
              cached == DictGet(comparison_cache, cache_key)
              comparisons == Comparisons(base_id, args.targets, target_ids,
                                         PricePayloads[price])
              call == [op |-> "compare_assets", args |-> args, key |-> cache_key,
                       now |-> now, pre |-> cached,
                       requests |-> ListCoinsRequests(trace) \o <<"simple_price">>,
                       failed |-> price = 0]
          IN  /\ RegistryAfter(trace)
              /\ IF price = 0
                 THEN /\ cacheCall' =
                           IF ServeCachedOnError(cached, now)
                           THEN call @@ [outcome |-> "returned", source |-> "cache",
                                         value |-> cached[1].value]
                           ELSE call @@ [outcome |-> "MarketDataError",
                                         source |-> "none", value |-> <<>>]
                      /\ UNCHANGED comparison_cache
                 ELSE /\ comparison_cache' =
                           Store(comparison_cache, cache_key, now, comparisons)
                      /\ cacheCall' = call @@ [outcome |-> "returned",
                                               source |-> "computed",
                                               value |-> comparisons]
              /\ UNCHANGED <<clock, lastCall, reqLog, overview_cache, storeVars, concVars>>

\* MarketDataService.compare_assets(base, targets, currency)
CompareAssetsCall == \E args \in CompareArgs : CompareAssetsOn(args)

\* the argument lists of compare_assets, with and without empty strings
CompareListArgs ==
    [base : {s_BTC, s_empty},
     targets : {<<>>, <<s_eth>>, <<s_eth, s_sol>>, <<s_empty, s_eth>>, <<s_eth, s_empty>>,
                <<s_empty>>}]

\* MarketDataService.compare_assets(base, targets, currency) on these
CompareListsCall == \E args \in CompareListArgs : CompareAssetsOn(args)

\* the upstream requests of an overview computation, in order
OverviewRequests == <<"simple_price", "market_chart", "coin_detail", "ohlc">>

\* lines 360-389: the overview built from the data of version v
Overview(asset_id, v) ==
    LET quote == DictGet(PricePayloads[v], asset_id)
    IN  [asset |-> asset_id,
         price |-> IF quote # <<>> THEN quote[1] ELSE DetailPrices[v],
         data |-> v]

\* MarketDataService.asset_overview(asset, currency, lookback_days); failAt is
\* the first upstream request of the computation that fails (0: none does)
AssetOverviewCall ==
    \E asset \in OverviewArgs :
      \E trace \in ResolveAssets(<<asset>>, CurrentRegistry, clock, CacheOutcomes) :
        LET asset_id == TraceOut(trace)[1]
            cache_key == <<asset_id, s_usd, lookback_days>>
            now == clock
            cached == DictGet(overview_cache, cache_key)
            call == [op |-> "asset_overview", key |-> cache_key, now |-> now,
                     pre |-> cached]
        IN  IF OverviewFresh(cached, now)
            THEN /\ RegistryAfter(trace)
                 /\ cacheCall' = call @@ [outcome |-> "returned", source |-> "cache",
                                          value |-> cached[1].value,
                                          requests |-> ListCoinsRequests(trace),
                                          failed |-> FALSE]
                 /\ UNCHANGED <<clock, lastCall, reqLog, overview_cache, comparison_cache,
                                storeVars, concVars>>
            ELSE \E failAt \in 0..Len(OverviewRequests), v \in Versions :
                   \* fundamentals_snapshot resolves the asset again, after the
                   \* price request has succeeded
                   \E again \in IF failAt = 1 THEN {<<>>}
                                ELSE ResolveAssets(<<asset>>,
                                         FinalRegistry(trace, CurrentRegistry), clock,
                                         CacheOutcomes) :
                     LET issued == IF failAt = 0 THEN OverviewRequests
                                   ELSE SubSeq(OverviewRequests, 1, failAt)
                         reqs == ListCoinsRequests(trace) \o <<issued[1]>>
                                   \o ListCoinsRequests(again) \o Tail(issued)
                         overview == Overview(asset_id, v)
                     IN  /\ RegistryAfter(trace \o again)
                         /\ IF failAt # 0
                            THEN /\ cacheCall' =
                                      call @@ [outcome |-> "MarketDataError",
                                               source |-> "none", value |-> <<>>,
                                               requests |-> reqs, failed |-> TRUE]
                                 /\ UNCHANGED overview_cache
                            ELSE /\ overview_cache' =
                                      Store(overview_cache, cache_key, now, overview)
                                 /\ cacheCall' =
                                      call @@ [outcome |-> "returned",
                                               source |-> "computed",
                                               value |-> overview,
                                               requests |-> reqs, failed |-> FALSE]
                         /\ UNCHANGED <<clock, lastCall, reqLog, comparison_cache, storeVars, concVars>>

CacheNext == CacheTick \/ CompareAssetsCall \/ AssetOverviewCall

---------------------------------------------------------------------------
(* The JSON store and the services on it, run by concurrent threads.  Each *)
(* service method is get_user_state (a locked read of the file), a change  *)
(* of the local state, and update_user_state (a second locked read, then a *)
(* locked write of the whole file).                                        *)

MaxStoreCalls == 3

Threads == {1, 2}
Users == {"alice", "bob"}

\* the default of get_user_state
DefaultState == [positions |-> <<>>, watchlist |-> <<>>, alerts |-> <<>>]

\* users.setdefault(user_id, default)
UserState(data, user_id) == IF user_id \in DOMAIN data THEN data[user_id] ELSE DefaultState

\* data["users"][user_id] = state
SetUser(data, user_id, state) ==
    IF user_id \in DOMAIN data THEN [data EXCEPT ![user_id] = state]
    ELSE data @@ (user_id :> state)

\* the calls a thread may run
StoreCalls ==
    [kind : {"add_position"}, user : Users, asset : {s_BTC}, amount : {2}, cost_basis : {5}]
    \cup [kind : {"add_watch_asset"}, user : {"alice"}, asset : {s_BTC}, amount : {0},
          cost_basis : {0}]
    \cup [kind : {"add_alert", "evaluate_alerts"}, user : {"alice"}, asset : {s_empty},
          amount : {0}, cost_basis : {0}]

IdleCall == [kind |-> "none", user |-> "alice", asset |-> s_empty, amount |-> 0,
             cost_basis |-> 0, id |-> 0]

\* lines 62-68 of add_position
NewPosition(call) ==
    [id |-> call.id, asset |-> Lower(call.asset), amount |-> call.amount,
     cost_basis |-> call.cost_basis]

\* lines 31-39 of add_alert: the alert as it is created at time now; None is
\* <<>>, and the alert has no context until it is evaluated
Alert(id, description, condition, now) ==
    [id |-> id, description |-> description, condition |-> condition,
     status |-> "armed", created_at |-> now, last_observed |-> <<>>,
     triggered_at |-> <<>>]

\* the alert of an add_alert call of the concurrent model; its condition is of
\* a type evaluate_alerts does not know
NewAlert(call) == Alert(call.id, "custom alert", [type |-> "custom"], 0)

\* a result that arms an alert of an unknown type
UnsupportedResult_Armed ==
    [status |-> "armed", observed_value |-> <<>>, triggered_at |-> <<>>,
     context |-> <<>>]

\* line 65 of evaluate_alerts: the result for a condition whose type is
\* neither price_move nor indicator_threshold
UnsupportedResult ==
    [status |-> "unsupported", observed_value |-> <<>>, triggered_at |-> <<>>,
     context |-> <<>>]

\* an evaluation that keeps a triggered alert triggered
AppliedResult_Sticky(alert, result) ==
    ("context" :> result.context)
    @@ [alert EXCEPT !.status = IF @ = "triggered" THEN @ ELSE result.status,
                     !.last_observed = result.observed_value,
                     !.triggered_at = IF result.triggered_at # <<>>
                                      THEN result.triggered_at ELSE @]

\* lines 66-70 of evaluate_alerts: the result written into the alert;
\* triggered_at is overwritten only by a result that has one
AppliedResult(alert, result) ==
    ("context" :> result.context)
    @@ [alert EXCEPT !.status = result.status,
                     !.last_observed = result.observed_value,
                     !.triggered_at = IF result.triggered_at # <<>>
                                      THEN result.triggered_at ELSE @]

\* lines 58-71 of evaluate_alerts for a condition whose type is neither
\* price_move nor indicator_threshold
EvaluatedAlert(alert) == AppliedResult(alert, UnsupportedResult)

\* a deletion that drops every position up to the one with the id
WithoutPosition_UpTo(positions, position_id) ==
    IF \A i \in 1..Len(positions) : positions[i].id # position_id THEN positions
    ELSE SubSeq(positions,
                1 + (CHOOSE i \in 1..Len(positions) : positions[i].id = position_id),
                Len(positions))

\* line 76 of delete_position
WithoutPosition(positions, position_id) ==
    SelectSeq(positions, LAMBDA pos : pos.id # position_id)

\* the change a service method makes to its local state, between
\* get_user_state and update_user_state
Mutated(state, call) ==
    CASE call.kind = "add_position" ->
           [state EXCEPT !.positions = Append(@, NewPosition(call))]
      [] call.kind = "add_watch_asset" ->
           IF Lower(call.asset) \in Range(state.watchlist) THEN state
           ELSE [state EXCEPT !.watchlist = Append(@, Lower(call.asset))]
      [] call.kind = "delete_position" ->
           [state EXCEPT !.positions = WithoutPosition(@, call.id)]
      [] call.kind = "remove_watch_asset" ->
           [state EXCEPT !.watchlist = SelectSeq(@, LAMBDA item : item # Lower(call.asset))]
      [] call.kind \in {"get_watchlist", "get_user_state"} -> state
      [] call.kind = "add_alert" ->
           [state EXCEPT !.alerts = Append(@, NewAlert(call))]
      [] call.kind = "evaluate_alerts" ->
           [state EXCEPT !.alerts = [i \in 1..Len(@) |-> EvaluatedAlert(@[i])]]

\* what the method returns
Returned(state, call) ==
    CASE call.kind = "add_position" -> <<NewPosition(call)>>
      [] call.kind = "add_watch_asset" -> state.watchlist
      [] call.kind = "delete_position" -> <<>>
      [] call.kind = "remove_watch_asset" -> state.watchlist
      [] call.kind = "get_watchlist" -> state.watchlist
      [] call.kind = "get_user_state" -> state
      [] call.kind = "add_alert" -> <<NewAlert(call)>>
      [] call.kind = "evaluate_alerts" -> state.alerts

\* a with-block that keeps the lock
LockAfterWith_Held(t) == t

\* the lock once the with-block of _read or _write has been left
LockAfterWith(t) == 0

StoreInit ==
    /\ file = EmptyMap
    /\ lock = 0
    /\ spc = [t \in Threads |-> "idle"]
    /\ sop = [t \in Threads |-> IdleCall]
    /\ sdata = [t \in Threads |-> EmptyMap]
    /\ sstate = [t \in Threads |-> DefaultState]
    /\ sret = [t \in Threads |-> <<>>]
    /\ nextId = 1
    /\ lastWrite = [thread |-> 0, user |-> "alice", state |-> DefaultState]
    /\ disk = "json"

StoreOther == UNCHANGED <<clock, lastCall, regVars, cacheVars, concVars>>

\* a request arrives: the thread starts a service method; id is the uuid4 the
\* method will draw
Begin(t) ==
    /\ spc[t] \in {"idle", "done"}
    /\ nextId <= MaxStoreCalls
    /\ \E call \in StoreCalls : sop' = [sop EXCEPT ![t] = call @@ [id |-> nextId]]
    /\ spc' = [spc EXCEPT ![t] = "read"]
    /\ sret' = [sret EXCEPT ![t] = <<>>]
    /\ nextId' = nextId + 1
    /\ UNCHANGED <<file, lock, sdata, sstate, lastWrite, disk>>
    /\ StoreOther

\* "with self._lock:" of _read and of _write
Acquire(t) ==
    /\ spc[t] \in {"read", "reread", "write"}
    /\ lock = 0
    /\ lock' = t
    /\ spc' = [spc EXCEPT ![t] = CASE spc[t] = "read" -> "read_locked"
                                   [] spc[t] = "reread" -> "reread_locked"
                                   [] spc[t] = "write" -> "write_locked"]
    /\ UNCHANGED <<file, sop, sdata, sstate, sret, nextId, lastWrite, disk>>
    /\ StoreOther

\* get_user_state: the body of _read, setdefault, and the end of the with-block
GetUserState(t) ==
    /\ spc[t] = "read_locked"
    /\ sstate' = [sstate EXCEPT ![t] = UserState(file, sop[t].user)]
    /\ lock' = LockAfterWith(t)
    /\ spc' = [spc EXCEPT ![t] = "mutate"]
    /\ UNCHANGED <<file, sop, sdata, sret, nextId, lastWrite, disk>>
    /\ StoreOther

\* the service method changes its local state
Mutate(t) ==
    /\ spc[t] = "mutate"
    /\ sstate' = [sstate EXCEPT ![t] = Mutated(@, sop[t])]
    /\ spc' = [spc EXCEPT ![t] = "reread"]
    /\ UNCHANGED <<file, lock, sop, sdata, sret, nextId, lastWrite, disk>>
    /\ StoreOther

\* update_user_state, line 47-48: data = self._read(); data["users"][user_id] = state
Reread(t) ==
    /\ spc[t] = "reread_locked"
    /\ sdata' = [sdata EXCEPT ![t] = SetUser(file, sop[t].user, sstate[t])]
    /\ lock' = LockAfterWith(t)
    /\ spc' = [spc EXCEPT ![t] = "write"]
    /\ UNCHANGED <<file, sop, sstate, sret, nextId, lastWrite, disk>>
    /\ StoreOther

\* update_user_state, line 49: self._write(data), the whole file
Write(t) ==
    /\ spc[t] = "write_locked"
    /\ file' = sdata[t]
    /\ lastWrite' = [thread |-> t, user |-> sop[t].user, state |-> sstate[t]]
    /\ lock' = LockAfterWith(t)
    /\ spc' = [spc EXCEPT ![t] = "return"]
    /\ disk' = "json"
    /\ UNCHANGED <<sop, sdata, sstate, sret, nextId>>
    /\ StoreOther

\* the method returns
Return(t) ==
    /\ spc[t] = "return"
    /\ sret' = [sret EXCEPT ![t] = <<Returned(sstate[t], sop[t])>>]
    /\ spc' = [spc EXCEPT ![t] = "done"]
    /\ UNCHANGED <<file, lock, sop, sdata, sstate, nextId, lastWrite, disk>>
    /\ StoreOther

StoreNext ==
    \E t \in Threads :
        \/ Begin(t)
        \/ Acquire(t)
        \/ GetUserState(t)
        \/ Mutate(t)
        \/ Reread(t)
        \/ Write(t)
        \/ Return(t)

---------------------------------------------------------------------------
(* The registry under concurrent resolutions: _resolve_single_asset and    *)
(* _ensure_registry run by threads that share the service object, one      *)
(* action per read or write of a service field.                            *)

MaxResolutions == 3

Resolvers == {1, 2}

\* the cleaned symbols the threads resolve
ConcAssets == {s_btc, s_abc, s_uni}

ConcInstants == {0, 3600}

ConcInit ==
    /\ rpc = [t \in Resolvers |-> "idle"]
    /\ rasset = [t \in Resolvers |-> s_empty]
    /\ rnow = [t \in Resolvers |-> 0]
    /\ rcoins = [t \in Resolvers |-> 0]
    /\ seenIds = [t \in Resolvers |-> <<>>]
    /\ seenSym = [t \in Resolvers |-> <<>>]
    /\ rout = [t \in Resolvers |-> <<>>]
    /\ rcalls = 0

ConcOther == UNCHANGED <<lastCall, reqLog, cacheVars, storeVars>>

ConcTick ==
    /\ \E t \in ConcInstants : t > clock /\ clock' = t
    /\ UNCHANGED <<symbol_cache, coin_ids, cache_expiry, concVars>>
    /\ ConcOther

\* lines 400-402: the call starts; an override key is answered at once
ResolveBegin(t) ==
    /\ rpc[t] \in {"idle", "done"}
    /\ rcalls < MaxResolutions
    /\ rcalls' = rcalls + 1
    /\ \E asset \in ConcAssets :
        /\ rasset' = [rasset EXCEPT ![t] = asset]
        /\ IF asset \in DOMAIN COMMON_ASSET_OVERRIDES
           THEN /\ rpc' = [rpc EXCEPT ![t] = "done"]
                /\ rout' = [rout EXCEPT ![t] = <<COMMON_ASSET_OVERRIDES[asset]>>]
           ELSE /\ rpc' = [rpc EXCEPT ![t] = "ensure"]
                /\ rout' = [rout EXCEPT ![t] = <<>>]
    /\ seenIds' = [seenIds EXCEPT ![t] = <<>>]
    /\ seenSym' = [seenSym EXCEPT ![t] = <<>>]
    /\ rcoins' = [rcoins EXCEPT ![t] = 0]
    /\ UNCHANGED <<clock, symbol_cache, coin_ids, cache_expiry, rnow>>
    /\ ConcOther

\* lines 420-422
CheckExpiry(t) ==
    /\ rpc[t] = "ensure"
    /\ rnow' = [rnow EXCEPT ![t] = clock]
    /\ rpc' = [rpc EXCEPT ![t] = IF RegistryFresh(CurrentRegistry, clock)
                                  THEN "read_ids" ELSE "list_coins"]
    /\ UNCHANGED <<clock, symbol_cache, coin_ids, cache_expiry, rasset, rcoins,
                   seenIds, seenSym, rout, rcalls>>
    /\ ConcOther

\* lines 423-437: the request ends; on an error the expiry is moved and the
\* function returns, else the thread holds its own symbol_map and id_set
ListCoinsReturns(t) ==
    /\ rpc[t] = "list_coins"
    /\ \E outcome \in Outcomes :
        IF outcome = 0
        THEN /\ cache_expiry' = RefreshFailed(CurrentRegistry, rnow[t]).cache_expiry
             /\ rpc' = [rpc EXCEPT ![t] = "read_ids"]
             /\ UNCHANGED rcoins
        ELSE /\ rcoins' = [rcoins EXCEPT ![t] = outcome]
             /\ rpc' = [rpc EXCEPT ![t] = "set_symbol_cache"]
             /\ UNCHANGED cache_expiry
    /\ UNCHANGED <<clock, symbol_cache, coin_ids, rasset, rnow, seenIds, seenSym,
                   rout, rcalls>>
    /\ ConcOther

\* line 438
SetSymbolCache(t) ==
    /\ rpc[t] = "set_symbol_cache"
    /\ symbol_cache' = RefreshLoaded(CurrentRegistry, rnow[t], CoinLists[rcoins[t]]).symbol_cache
    /\ rpc' = [rpc EXCEPT ![t] = "set_coin_ids"]
    /\ UNCHANGED <<clock, coin_ids, cache_expiry, rasset, rnow, rcoins, seenIds,
                   seenSym, rout, rcalls>>
    /\ ConcOther

\* line 439
SetCoinIds(t) ==
    /\ rpc[t] = "set_coin_ids"
    /\ coin_ids' = RefreshLoaded(CurrentRegistry, rnow[t], CoinLists[rcoins[t]]).coin_ids
    /\ rpc' = [rpc EXCEPT ![t] = "set_cache_expiry"]
    /\ UNCHANGED <<clock, symbol_cache, cache_expiry, rasset, rnow, rcoins, seenIds,
                   seenSym, rout, rcalls>>
    /\ ConcOther

\* line 440
SetCacheExpiry(t) ==
    /\ rpc[t] = "set_cache_expiry"
    /\ cache_expiry' = RefreshLoaded(CurrentRegistry, rnow[t], CoinLists[rcoins[t]]).cache_expiry
    /\ rpc' = [rpc EXCEPT ![t] = "read_ids"]
    /\ UNCHANGED <<clock, symbol_cache, coin_ids, rasset, rnow, rcoins, seenIds,
                   seenSym, rout, rcalls>>
    /\ ConcOther

\* lines 404-405
ReadCoinIds(t) ==
    /\ rpc[t] = "read_ids"
    /\ seenIds' = [seenIds EXCEPT ![t] = <<coin_ids>>]
    /\ IF rasset[t] \in coin_ids
       THEN /\ rout' = [rout EXCEPT ![t] = <<rasset[t]>>]
            /\ rpc' = [rpc EXCEPT ![t] = "done"]
       ELSE /\ rpc' = [rpc EXCEPT ![t] = "read_symbols"]
            /\ UNCHANGED rout
    /\ UNCHANGED <<clock, symbol_cache, coin_ids, cache_expiry, rasset, rnow, rcoins,
                   seenSym, rcalls>>
    /\ ConcOther

\* lines 406-411
ReadSymbolCache(t) ==
    /\ rpc[t] = "read_symbols"
    /\ seenSym' = [seenSym EXCEPT ![t] = <<symbol_cache>>]
    /\ rout' = [rout EXCEPT ![t] =
                   <<LookupAsset(rasset[t], Registry(symbol_cache, seenIds[t][1], 0))>>]
    /\ rpc' = [rpc EXCEPT ![t] = "done"]
    /\ UNCHANGED <<clock, symbol_cache, coin_ids, cache_expiry, rasset, rnow, rcoins,
                   seenIds, rcalls>>
    /\ ConcOther

ConcNext ==
    \/ ConcTick
    \/ \E t \in Resolvers :
        \/ ResolveBegin(t)
        \/ CheckExpiry(t)
        \/ ListCoinsReturns(t)
        \/ SetSymbolCache(t)
        \/ SetCoinIds(t)
        \/ SetCacheExpiry(t)
        \/ ReadCoinIds(t)
        \/ ReadSymbolCache(t)

---------------------------------------------------------------------------
(* Series analytics: _build_candles, _compute_rsi, analyze and             *)
(* normalized_history.  A price point is <<timestamp in ms, price>>.  A    *)
(* float that the code rounds to two decimals is kept as the integer       *)
(* number of hundredths.                                                   *)

s_rsi == <<114, 115, 105>>
s_RSI == <<82, 83, 73>>
s_macd == <<109, 97, 99, 100>>
s_star == <<42>>

Max(a, b) == IF a >= b THEN a ELSE b

Abs(x) == IF x < 0 THEN -x ELSE x

RECURSIVE Sum(_)
Sum(seq) == IF seq = <<>> THEN 0 ELSE Head(seq) + Sum(Tail(seq))

\* seq[-n:] for n >= 1
LastN(seq, n) == IF Len(seq) <= n THEN seq ELSE SubSeq(seq, Len(seq) - n + 1, Len(seq))

\* round(num / den) for num >= 0, den > 0, ties to the even neighbour
RoundDiv(num, den) ==
    LET q == num \div den
        r == num % den
    IN  IF 2 * r > den \/ (2 * r = den /\ q % 2 = 1) THEN q + 1 ELSE q

\* TIMEFRAME_TO_MINUTES.get(timeframe, 240)
TimeframeMinutes(timeframe) ==
    CASE timeframe = "1h" -> 60
      [] timeframe = "2h" -> 120
      [] timeframe = "4h" -> 240
      [] timeframe = "6h" -> 360
      [] timeframe = "12h" -> 720
      [] timeframe = "1d" -> 1440
      [] OTHER -> 240

\* datetime.fromtimestamp(ms / 1000, tz=utc).isoformat(): the second and the
\* millisecond within it
IsoFormat(ms) == <<ms \div 1000, ms % 1000>>

\* lines 74-82: the candle a price opens
NewCandle(bucket, price) ==
    [timestamp |-> IsoFormat(bucket), open |-> price, high |-> price, low |-> price,
     close |-> price]

\* lines 85-88: a price of the current bucket
UpdatedCandle(candle, price) ==
    [candle EXCEPT !.high = Max(@, price), !.low = Min(@, price), !.close = price]

\* line 73 of _build_candles
BucketOf(timestamp, bucket_ms) == (timestamp \div bucket_ms) * bucket_ms

\* a loop body that reopens the candle with every price of its bucket
CandlesWith_Reopened(candles, current_bucket, point, bucket_ms) ==
    IF current_bucket # <<BucketOf(point[1], bucket_ms)>>
    THEN Append(candles, NewCandle(BucketOf(point[1], bucket_ms), point[2]))
    ELSE [candles EXCEPT ![Len(candles)] =
             [UpdatedCandle(@, point[2]) EXCEPT !.open = point[2]]]

\* lines 74-88 of _build_candles: the candles after one point <<timestamp,
\* price>>; current_bucket is <<>> for None
CandlesWith(candles, current_bucket, point, bucket_ms) ==
    IF current_bucket # <<BucketOf(point[1], bucket_ms)>>
    THEN Append(candles, NewCandle(BucketOf(point[1], bucket_ms), point[2]))
    ELSE [candles EXCEPT ![Len(candles)] = UpdatedCandle(@, point[2])]

\* the loop of _build_candles from the i-th point on
RECURSIVE BuildCandlesLoop(_, _, _, _, _)
BuildCandlesLoop(prices, i, bucket_ms, candles, current_bucket) ==
    IF i > Len(prices) THEN candles
    ELSE BuildCandlesLoop(prices, i + 1, bucket_ms,
                          CandlesWith(candles, current_bucket, prices[i], bucket_ms),
                          <<BucketOf(prices[i][1], bucket_ms)>>)

\* _build_candles(prices, bucket_minutes)
BuildCandles(prices, bucket_minutes) ==
    BuildCandlesLoop(prices, 1, bucket_minutes * 60 * 1000, <<>>, <<>>)

\* _pairwise, then curr - prev
Changes(seq) == [i \in 1..(Len(seq) - 1) |-> seq[i + 1] - seq[i]]

\* the gains of lines 94-96, in order
RECURSIVE Gains(_)
Gains(changes) ==
    IF changes = <<>> THEN <<>>
    ELSE (IF Head(changes) > 0 THEN <<Abs(Head(changes))>> ELSE <<>>) \o Gains(Tail(changes))

\* the losses of lines 94-96, in order; a change of 0 counts as a loss of 0
RECURSIVE Losses(_)
Losses(changes) ==
    IF changes = <<>> THEN <<>>
    ELSE (IF Head(changes) > 0 THEN <<>> ELSE <<Abs(Head(changes))>>) \o Losses(Tail(changes))

\* period * avg_gain and period * avg_loss of lines 97-98
TrailingGain(closes, period) == Sum(LastN(Gains(Changes(LastN(closes, period + 15))), period))
TrailingLoss(closes, period) == Sum(LastN(Losses(Changes(LastN(closes, period + 15))), period))

\* an RSI that is cut to 99.99 whenever avg_loss is not 0
RsiOf_Clamped(g, l) == IF l = 0 THEN 10000 ELSE Min(9999, RoundDiv(10000 * g, g + l))

\* lines 99-103 of _compute_rsi, in hundredths, from period * avg_gain and
\* period * avg_loss: 100 when avg_loss is 0, else
\* round(100 - 100 / (1 + avg_gain / avg_loss), 2)
RsiOf(g, l) == IF l = 0 THEN 10000 ELSE RoundDiv(10000 * g, g + l)

\* _compute_rsi(closes, period)
ComputeRsi(closes, period) ==
    RsiOf(TrailingGain(closes, period), TrailingLoss(closes, period))

\* lines 45-55 of analyze: the state of an RSI value
RsiState(value) ==
    IF value >= 7000 THEN "overbought" ELSE IF value <= 3000 THEN "oversold" ELSE "neutral"

\* lines 56-64 of analyze: the result; value is <<>> for None
AnalysisResult(symbol, indicator, timeframe, candles, closes, value) ==
    [asset |-> symbol, indicator |-> indicator, timeframe |-> timeframe,
     value |-> value,
     state |-> IF value = <<>> THEN "unknown" ELSE RsiState(value[1]),
     series |-> LastN(candles, 90), closes |-> closes]

\* an analysis that computes the RSI from period + 1 closes on
AnalysisOfCloses_OneShort(symbol, indicator, timeframe, period, candles, closes) ==
    AnalysisResult(symbol, indicator, timeframe, candles, closes,
        IF Lower(indicator) = s_rsi /\ Len(closes) >= period + 1
        THEN <<ComputeRsi(closes, period)>> ELSE <<>>)

\* lines 41-46 of analyze
AnalysisOfCloses(symbol, indicator, timeframe, period, candles, closes) ==
    AnalysisResult(symbol, indicator, timeframe, candles, closes,
        IF Lower(indicator) = s_rsi /\ Len(closes) >= period + 2
        THEN <<ComputeRsi(closes, period)>> ELSE <<>>)

\* line 40 of analyze
AnalysisOfCandles(symbol, indicator, timeframe, period, candles) ==
    AnalysisOfCloses(symbol, indicator, timeframe, period, candles,
                     [i \in 1..Len(candles) |-> candles[i].close])

\* analyze from the chart on (lines 37-64)
Analysis(symbol, prices, indicator, timeframe, period) ==
    AnalysisOfCandles(symbol, indicator, timeframe, period,
                      BuildCandles(prices, TimeframeMinutes(timeframe)))

\* line 36 of analyze: the days of chart that are requested
AnalysisDays(minutes) == Max(1, minutes \div 1440 + 1)

---------------------------------------------------------------------------
(* The portfolio and alert services run one call at a time on the store.   *)
(* A market is what the provider answers during one call: coins is the     *)
(* outcome of every list_coins() request, price_ok whether the simple      *)
(* price request succeeds, quotes the price per id the provider quotes,    *)
(* charts the price series per id (an id without a chart is answered with  *)
(* an error).  Amounts and prices are integers; a quotient the code leaves *)
(* as a float is kept as numerator and denominator.                        *)

\* sorted(set_of_strings)
RECURSIVE SortedSeq(_)
SortedSeq(S) ==
    IF S = {} THEN <<>>
    ELSE LET m == CHOOSE x \in S : \A y \in S : x = y \/ StrLess(x, y)
         IN  <<m>> \o SortedSeq(S \ {m})

\* a / b * 100 if b else 0
PercentOf(a, b) == IF b # 0 THEN [num |-> a * 100, den |-> b] ELSE [num |-> 0, den |-> 1]

\* _resolve_assets when every list_coins() request of the call ends with
\* market.coins
ResolvedTrace(assets, reg, now, market) ==
    CHOOSE trace \in ResolveAssets(assets, reg, now, {market.coins}) : TRUE

\* quotes.get(pos["asset"]): get_simple_price(ids) answers with the quotes of
\* the requested ids, keyed by id (market.py:71-83, portfolio.py:157)
QuoteKeyedByAsset(asset, ids, assets, market) ==
    IF asset \in Range(ids) /\ asset \in DOMAIN market.quotes
    THEN <<market.quotes[asset]>>
    ELSE <<>>

\* lines 108-126 of summarize_portfolio: the row of a position
PositionRow(pos, quote) ==
    LET price == IF quote # <<>> THEN quote[1] ELSE 0
        current_value == price * pos.amount
        cost_value == pos.amount * pos.cost_basis
    IN  [id |-> pos.id, asset |-> pos.asset, amount |-> pos.amount,
         cost_basis |-> pos.cost_basis, current_price |-> price,
         current_value |-> current_value, cost_value |-> cost_value,
         pnl_abs |-> current_value - cost_value,
         pnl_pct |-> PercentOf(current_value - cost_value, cost_value)]

\* a total that holds the last row only
Accumulate_LastOnly(rows, field) ==
    IF rows = <<>> THEN 0 ELSE rows[Len(rows)][field]

\* total_value += current_value; total_cost += cost_value
RECURSIVE Accumulate(_, _)
Accumulate(rows, field) ==
    IF rows = <<>> THEN 0 ELSE Accumulate(SubSeq(rows, 1, Len(rows) - 1), field)
                               + rows[Len(rows)][field]

\* what summarize_portfolio gives when the resolution or the price request
\* raises, with the registry left behind
FailedSummary(error, reg, requested) ==
    [error |-> error, positions |-> <<>>,
     totals |-> [invested |-> 0, value |-> 0, pnl_abs |-> 0, pnl_pct |-> PercentOf(0, 0)],
     breakdown |-> <<>>, watchlist |-> <<>>, reg |-> reg, requested |-> requested]

\* lines 127-151 of summarize_portfolio: totals, breakdown and the result
SummaryOfTotals(state, rows, reg, ids, total_value, total_cost) ==
    [error |-> "none", positions |-> rows,
     totals |-> [invested |-> total_cost, value |-> total_value,
                 pnl_abs |-> total_value - total_cost,
                 pnl_pct |-> PercentOf(total_value - total_cost, total_cost)],
     breakdown |-> [i \in 1..Len(rows) |->
                       [asset |-> rows[i].asset, value |-> rows[i].current_value,
                        weight_pct |-> PercentOf(rows[i].current_value, total_value)]],
     watchlist |-> state.watchlist, reg |-> reg, requested |-> ids]

\* lines 106-126 of summarize_portfolio: the rows are built in the order of
\* the positions and the totals accumulated over them
SummaryOfRows(state, rows, reg, ids) ==
    SummaryOfTotals(state, rows, reg, ids,
                    Accumulate(rows, "current_value"), Accumulate(rows, "cost_value"))

\* summarize_portfolio from the resolution of _fetch_quotes on; trace is <<>>
\* when a symbol is unknown
SummaryOfTrace(state, assets, reg, market, trace) ==
    IF assets = <<>> THEN SummaryOfRows(state, <<>>, reg, <<>>)
    ELSE IF trace = <<>> THEN FailedSummary("ValueError", FinalRegistry(trace, reg), <<>>)
    ELSE IF ~market.price_ok
    THEN FailedSummary("MarketDataError", FinalRegistry(trace, reg), TraceOut(trace))
    ELSE SummaryOfRows(state,
             [i \in 1..Len(state.positions) |->
                 PositionRow(state.positions[i],
                             QuoteKeyedByAsset(state.positions[i].asset, TraceOut(trace),
                                               assets, market))],
             FinalRegistry(trace, reg), TraceOut(trace))

\* line 154-157 of _fetch_quotes: the sorted assets are resolved and priced
SummaryOfAssets(state, assets, reg, now, market) ==
    SummaryOfTrace(state, assets, reg, market, ResolvedTrace(assets, reg, now, market))

\* summarize_portfolio(user_id, currency) on the user's state: error is
\* "none", "ValueError" or "MarketDataError"; reg the registry left behind;
\* requested the ids of the simple price request, <<>> when none was made
SummarizePortfolio(state, reg, now, market) ==
    SummaryOfAssets(state,
        SortedSeq({state.positions[i].asset : i \in 1..Len(state.positions)}),
        reg, now, market)

\* condition.get(key, default): a value of the condition other than its type
\* is <<>> for None and <<v>> otherwise; the default is used only when the key
\* is absent
ConditionGet(condition, key, default) ==
    IF key \in DOMAIN condition THEN condition[key] ELSE <<default>>

\* x or default
OrElse(wrapped, falsy, default) ==
    IF wrapped = <<>> \/ wrapped[1] = falsy THEN default ELSE wrapped[1]

\* max(1, ceil(window_minutes / (60 * 24)))
ChartDays(window_minutes) == Max(1, (window_minutes + 1439) \div 1440)

\* lines 143-153 of _price_change on the series of the chart; the change is
\* a whole number of percent for the charts of the model
PriceChange(series, window_minutes) ==
    IF series = <<>> THEN [change_pct |-> 0, latest |-> 0]
    ELSE LET cutoff == series[Len(series)][1] - window_minutes * 60 * 1000
             inside == SelectSeq(series, LAMBDA point : point[1] >= cutoff)
             window_series == IF Len(inside) < 2 THEN LastN(series, 2) ELSE inside
             start_price == window_series[1][2]
             end_price == window_series[Len(window_series)][2]
         IN  [change_pct |-> IF start_price # 0
                             THEN ((end_price - start_price) * 100) \div start_price
                             ELSE 0,
              latest |-> end_price]

\* a comparison that uses the strict order
ConditionMet_Strict(direction, change_pct, percentage) ==
    IF direction = <<"drop">> THEN change_pct < -percentage ELSE change_pct > percentage

\* lines 90-92 of _evaluate_price_alert
ConditionMet(direction, change_pct, percentage) ==
    IF direction = <<"drop">> THEN change_pct <= -percentage ELSE change_pct >= percentage

\* lines 90-100 of _evaluate_price_alert: a target that meets the condition
\* is appended to triggered_assets
Matched(triggered_assets, asset, condition, pc) ==
    IF ConditionMet(ConditionGet(condition, "direction", "drop"), pc.change_pct,
                    OrElse(ConditionGet(condition, "percentage", 0), 0, 0))
    THEN Append(triggered_assets,
                [asset |-> asset, change_pct |-> pc.change_pct, price |-> pc.latest])
    ELSE triggered_assets

\* the loop of _evaluate_price_alert over the targets from the i-th on
RECURSIVE PriceTargetsLoop(_, _, _, _, _, _, _)

\* lines 87-100: one target, from its resolution on
PriceTargetStep(targets, i, condition, reg, now, market, triggered_assets, trace) ==
    IF trace = <<>>
    THEN [error |-> "ValueError", triggered_assets |-> triggered_assets,
          reg |-> FinalRegistry(trace, reg)]
    ELSE IF TraceOut(trace)[1] \notin DOMAIN market.charts
    THEN [error |-> "MarketDataError", triggered_assets |-> triggered_assets,
          reg |-> FinalRegistry(trace, reg)]
    ELSE PriceTargetsLoop(targets, i + 1, condition, FinalRegistry(trace, reg), now, market,
             Matched(triggered_assets, targets[i], condition,
                     PriceChange(market.charts[TraceOut(trace)[1]],
                         OrElse(ConditionGet(condition, "window_minutes", 60), 0, 60))))

PriceTargetsLoop(targets, i, condition, reg, now, market, triggered_assets) ==
    IF i > Len(targets)
    THEN [error |-> "none", triggered_assets |-> triggered_assets, reg |-> reg]
    ELSE PriceTargetStep(targets, i, condition, reg, now, market, triggered_assets,
                         ResolvedTrace(<<targets[i]>>, reg, now, market))

\* lines 101-113 of _evaluate_price_alert: the result from the matches
PriceAlertResult(targets, now, loop) ==
    IF loop.error # "none"
    THEN [error |-> loop.error, result |-> UnsupportedResult, reg |-> loop.reg,
          targets |-> targets]
    ELSE [error |-> "none", reg |-> loop.reg, targets |-> targets,
          result |->
            IF loop.triggered_assets # <<>>
            THEN [status |-> "triggered",
                  observed_value |-> <<loop.triggered_assets[1].change_pct>>,
                  context |-> <<[matches |-> loop.triggered_assets]>>,
                  triggered_at |-> <<now>>]
            ELSE [status |-> "armed", observed_value |-> <<>>,
                  context |-> <<[checked_assets |-> targets]>>,
                  triggered_at |-> <<>>]]

\* lines 86-113 of _evaluate_price_alert on its targets
PriceAlertOnTargets(condition, targets, reg, now, market) ==
    PriceAlertResult(targets, now,
                     PriceTargetsLoop(targets, 1, condition, reg, now, market, <<>>))

\* lines 81-83 of _evaluate_price_alert: the targets of "*" are the assets of
\* the rows of the snapshot
PriceAlertOnPortfolio(condition, now, market, snapshot) ==
    IF snapshot.error # "none"
    THEN [error |-> snapshot.error, result |-> UnsupportedResult, reg |-> snapshot.reg,
          targets |-> <<>>]
    ELSE PriceAlertOnTargets(condition,
             [i \in 1..Len(snapshot.positions) |-> snapshot.positions[i].asset],
             snapshot.reg, now, market)

\* the asset of a price alert: condition.get("asset") or "*"
PriceAsset(condition) == OrElse(ConditionGet(condition, "asset", s_empty), s_empty, s_star)

\* _evaluate_price_alert; state is the user's persisted state
EvaluatePriceAlert(condition, state, reg, now, market) ==
    IF PriceAsset(condition) = s_star
    THEN PriceAlertOnPortfolio(condition, now, market,
                               SummarizePortfolio(state, reg, now, market))
    ELSE PriceAlertOnTargets(condition, <<PriceAsset(condition)>>, reg, now, market)

rsi_period == 14

\* a timeframe of None is no key of TIMEFRAME_TO_MINUTES
TimeframeArg(wrapped) == IF wrapped = <<>> THEN "None" ELSE wrapped[1]

\* a comparison in which every operator other than "gt" never triggers
IndicatorTriggered_GtOnly(value, operator, threshold) ==
    value # <<>> /\ operator = <<"gt">> /\ value[1] > threshold * 100

\* lines 128-130 of _evaluate_indicator_alert; value is in hundredths
IndicatorTriggered(value, operator, threshold) ==
    /\ value # <<>>
    /\ IF operator = <<"lt">> THEN value[1] < threshold * 100
       ELSE value[1] > threshold * 100

\* lines 128-137 of _evaluate_indicator_alert: the result from the analysis
IndicatorResult(condition, now, reg, analysis, triggered) ==
    [error |-> "none", reg |-> reg,
     result |-> [status |-> IF triggered THEN "triggered" ELSE "armed",
                 observed_value |-> analysis.value,
                 context |-> <<[analysis |-> analysis]>>,
                 triggered_at |-> IF triggered THEN <<now>> ELSE <<>>]]

\* lines 126-130 of _evaluate_indicator_alert
IndicatorOnAnalysis(condition, now, reg, analysis) ==
    IndicatorResult(condition, now, reg, analysis,
        IndicatorTriggered(analysis.value, ConditionGet(condition, "operator", "lt"),
                           OrElse(ConditionGet(condition, "threshold", 0), 0, 0)))

\* analyze(asset, indicator, timeframe) from the resolution of the asset on:
\* resolve_symbol, get_market_chart, indicator.lower()
IndicatorOnTrace(condition, now, reg, market, trace) ==
    IF trace = <<>>
    THEN [error |-> "ValueError", result |-> UnsupportedResult,
          reg |-> FinalRegistry(trace, reg)]
    ELSE IF TraceOut(trace)[1] \notin DOMAIN market.charts
    THEN [error |-> "MarketDataError", result |-> UnsupportedResult,
          reg |-> FinalRegistry(trace, reg)]
    ELSE IF ConditionGet(condition, "indicator", s_rsi) = <<>>
    THEN [error |-> "AttributeError", result |-> UnsupportedResult,
          reg |-> FinalRegistry(trace, reg)]
    ELSE IndicatorOnAnalysis(condition, now, FinalRegistry(trace, reg),
             Analysis(TraceOut(trace)[1], market.charts[TraceOut(trace)[1]],
                      ConditionGet(condition, "indicator", s_rsi)[1],
                      TimeframeArg(ConditionGet(condition, "timeframe", "4h")),
                      rsi_period))

\* the asset handed to analyze: what fails to resolve when it is None
IndicatorAsset(condition) ==
    IF "asset" \in DOMAIN condition /\ condition.asset # <<>>
    THEN <<condition.asset[1]>> ELSE <<>>

\* _evaluate_indicator_alert
EvaluateIndicatorAlert(condition, reg, now, market) ==
    IndicatorOnTrace(condition, now, reg, market,
                     ResolvedTrace(IndicatorAsset(condition), reg, now, market))

\* lines 58-65 of evaluate_alerts: the result for one alert
EvaluateCondition(condition, state, reg, now, market) ==
    IF condition.type = "price_move"
    THEN EvaluatePriceAlert(condition, state, reg, now, market)
    ELSE IF condition.type = "indicator_threshold"
    THEN EvaluateIndicatorAlert(condition, reg, now, market)
    ELSE [error |-> "none", result |-> UnsupportedResult, reg |-> reg]

\* the loop of evaluate_alerts from the i-th alert on; state is the persisted
\* state, alerts the list with the results written so far, evaluated the list
\* that is returned
RECURSIVE EvaluateLoop(_, _, _, _, _, _, _)

\* lines 66-72 of evaluate_alerts: the result e is written into the alert,
\* which is appended to the returned list
EvaluateStep(state, alerts, evaluated, i, now, market, e) ==
    IF e.error # "none"
    THEN [error |-> e.error, alerts |-> alerts, evaluated |-> evaluated, reg |-> e.reg]
    ELSE EvaluateLoop(state,
                      [alerts EXCEPT ![i] = AppliedResult(@, e.result)],
                      Append(evaluated, AppliedResult(alerts[i], e.result)),
                      i + 1, e.reg, now, market)

EvaluateLoop(state, alerts, evaluated, i, reg, now, market) ==
    IF i > Len(alerts)
    THEN [error |-> "none", alerts |-> alerts, evaluated |-> evaluated, reg |-> reg]
    ELSE EvaluateStep(state, alerts, evaluated, i, now, market,
                      EvaluateCondition(alerts[i].condition, state, reg, now, market))

\* the condition AlertCondition.model_dump() yields: every key is present
ApiCondition(type, asset, window_minutes, percentage, direction, indicator, timeframe, operator, threshold) ==
    [type |-> type, asset |-> asset, window_minutes |-> window_minutes,
     percentage |-> percentage, direction |-> direction, indicator |-> indicator,
     timeframe |-> timeframe, operator |-> operator, threshold |-> threshold]

\* the conditions of the alerts that are added
Conditions ==
    << ApiCondition("price_move", <<s_star>>, <<60>>, <<5>>, <<"drop">>, <<>>, <<>>, <<>>, <<>>),
       ApiCondition("price_move", <<s_eth>>, <<60>>, <<6>>, <<"rise">>, <<>>, <<>>, <<>>, <<>>),
       ApiCondition("indicator_threshold", <<s_eth>>, <<60>>, <<>>, <<>>, <<s_rsi>>, <<"4h">>,
                    <<"lt">>, <<30>>),
       ApiCondition("indicator_threshold", <<s_btc>>, <<60>>, <<>>, <<>>, <<s_RSI>>, <<>>,
                    <<"gt">>, <<50>>),
       ApiCondition("indicator_threshold", <<s_btc>>, <<60>>, <<>>, <<>>, <<s_rsi>>, <<"4h">>,
                    <<>>, <<30>>),
       [type |-> "custom"],
       ApiCondition("price_move", <<s_btc>>, <<60>>, <<5>>, <<>>, <<>>, <<>>, <<>>, <<>>) >>

\* a chart with one point every step ms
ChartOf(closes, step) == [i \in 1..Len(closes) |-> <<(i - 1) * step, closes[i]>>]

HourMs == 60 * 60 * 1000

\* closes at 4 h distance: 8 rises and 8 falls of the same size, ending with a
\* fall of 6 %; 15 falls, ending with a fall of 2 %; and 15 rises
EvenCloses == [i \in 1..17 |-> IF i % 2 = 1 THEN 94 ELSE 100]
FallingCloses == [i \in 1..16 |-> 130 - 2 * i]
RisingCloses == [i \in 1..16 |-> IF i = 16 THEN 200 ELSE 85 + i]

\* what the provider answers during a call
Markets ==
    << \* 4 h closes: bitcoin even and 6 % down at last, ethereum falling and
       \* 2 % down at last
       [coins |-> 1, price_ok |-> TRUE,
        quotes |-> (s_bitcoin :> 100) @@ (s_ethereum :> 10),
        charts |-> (s_bitcoin :> ChartOf(EvenCloses, 4 * HourMs))
                   @@ (s_ethereum :> ChartOf(FallingCloses, 4 * HourMs))],
       \* 1 h closes: over the last hour bitcoin fell 5 % and ethereum rose
       \* 6 %; no quote for ethereum
       [coins |-> 1, price_ok |-> TRUE,
        quotes |-> (s_bitcoin :> 90),
        charts |-> (s_bitcoin :> ChartOf(<<200, 100, 95>>, HourMs))
                   @@ (s_ethereum :> ChartOf(<<50, 100, 106>>, HourMs))],
       \* 4 h closes: bitcoin rising; no chart for ethereum, no coin list and
       \* no price
       [coins |-> 0, price_ok |-> FALSE,
        quotes |-> EmptyMap,
        charts |-> (s_bitcoin :> ChartOf(RisingCloses, 4 * HourMs))] >>

\* the arguments of add_position
PositionArgs ==
    { [user |-> "alice", asset |-> s_BTC, amount |-> 2, cost_basis |-> 40],
      [user |-> "alice", asset |-> s_bitcoin, amount |-> 1, cost_basis |-> 0],
      [user |-> "alice", asset |-> s_eth, amount |-> 3, cost_basis |-> 10],
      [user |-> "bob", asset |-> s_bitcoin, amount |-> 2, cost_basis |-> 50] }

MaxAlerts == 2

MaxServiceIds == 3

ServiceOther ==
    UNCHANGED <<clock, reqLog, cacheVars, concVars, lock, spc, sop, sdata, sstate, sret,
                lastWrite, disk>>

RegistryBecomes(reg) ==
    /\ symbol_cache' = reg.symbol_cache
    /\ coin_ids' = reg.coin_ids
    /\ cache_expiry' = reg.cache_expiry

\* uuid.uuid4().hex: an id no other item has, here the kind of the item, its
\* user and its place in the user's list
FreshId(kind, user, items) == <<kind, user, Len(items) + 1>>

\* PortfolioService.add_position(user_id, asset, amount, cost_basis)
AddPositionCall ==
    /\ nextId <= MaxServiceIds
    /\ \E args \in PositionArgs :
        LET call == [kind |-> "add_position", user |-> args.user, asset |-> args.asset,
                     amount |-> args.amount, cost_basis |-> args.cost_basis,
                     id |-> FreshId("position", args.user,
                                    UserState(file, args.user).positions)]
        IN  /\ file' = SetUser(file, args.user, Mutated(UserState(file, args.user), call))
            /\ lastCall' = [op |-> "add_position", user |-> args.user, market |-> 0,
                            error |-> "none", result |-> <<NewPosition(call)>>]
    /\ nextId' = nextId + 1
    /\ UNCHANGED <<symbol_cache, coin_ids, cache_expiry>>
    /\ ServiceOther

\* AlertService.add_alert(user_id, description, condition)
AddAlertCall ==
    /\ nextId <= MaxServiceIds
    /\ Len(UserState(file, "alice").alerts) < MaxAlerts
    /\ \E c \in 1..Len(Conditions) :
        LET state == UserState(file, "alice")
            alert == Alert(FreshId("alert", "alice", state.alerts), "alert", Conditions[c],
                           clock)
        IN  /\ file' = SetUser(file, "alice", [state EXCEPT !.alerts = Append(@, alert)])
            /\ lastCall' = [op |-> "add_alert", user |-> "alice", market |-> 0,
                            error |-> "none", result |-> <<alert>>]
    /\ nextId' = nextId + 1
    /\ UNCHANGED <<symbol_cache, coin_ids, cache_expiry>>
    /\ ServiceOther

\* AlertService.evaluate_alerts(user_id, currency)
EvaluateAlertsCall ==
    \E user \in {"alice"}, m \in 1..Len(Markets) :
      \E e \in {EvaluateLoop(UserState(file, user), UserState(file, user).alerts, <<>>, 1,
                            CurrentRegistry, clock, Markets[m])} :
        LET state == UserState(file, user)
        IN  /\ RegistryBecomes(e.reg)
            /\ file' = IF e.error = "none"
                       THEN SetUser(file, user, [state EXCEPT !.alerts = e.alerts])
                       ELSE file
            /\ lastCall' = [op |-> "evaluate_alerts", user |-> user, market |-> m,
                            error |-> e.error,
                            result |-> IF e.error = "none" THEN e.evaluated ELSE <<>>]
            /\ UNCHANGED nextId
            /\ ServiceOther

\* PortfolioService.summarize_portfolio(user_id, currency)
SummarizePortfolioCall ==
    \E user \in {"alice"}, m \in 1..Len(Markets) :
      \E summary \in {SummarizePortfolio(UserState(file, user), CurrentRegistry, clock,
                                         Markets[m])} :
            /\ RegistryBecomes(summary.reg)
            /\ lastCall' = [op |-> "summarize_portfolio", user |-> user, market |-> m,
                            error |-> summary.error,
                            result |-> <<summary>>]
            /\ UNCHANGED <<file, nextId>>
            /\ ServiceOther

ServiceNext ==
    \/ AddPositionCall
    \/ AddAlertCall
    \/ EvaluateAlertsCall

PortfolioNext ==
    \/ AddPositionCall
    \/ SummarizePortfolioCall

---------------------------------------------------------------------------
(* The series functions on the charts the provider serves: the loop of     *)
(* _build_candles point by point, analyze and normalized_history on whole  *)
(* charts, one call per behaviour.                                         *)

\* -round(-num / den) for num < 0
RoundSigned(num, den) == IF num >= 0 THEN RoundDiv(num, den) ELSE -RoundDiv(-num, den)

\* prices[0][1] or 1.0
BaseOf(prices) == IF prices[1][2] # 0 THEN prices[1][2] ELSE 1

\* lines 224-228 of normalized_history: the point of a price, in hundredths
\* of a percent
NormalizedPoint(point, base) ==
    [timestamp |-> IsoFormat(point[1][1]),
     value |-> RoundSigned(10000 * (point[2] - base), base)]

\* datetime.fromtimestamp(ts / 1000) succeeds: a timestamp is <<>> for None
\* and <<ms>> otherwise
Convertible(point) == point[1] # <<>>

\* lines 222-229: the series of a non-empty chart; a point whose timestamp
\* cannot be converted is skipped
Normalized(prices) ==
    LET kept == SelectSeq(prices, Convertible)
    IN  [i \in 1..Len(kept) |-> NormalizedPoint(kept[i], BaseOf(prices))]

\* lines 216-231: the loop over the assets from the i-th on; charts[i] is the
\* chart of assets[i]
RECURSIVE NormalizedHistoryLoop(_, _, _, _)
NormalizedHistoryLoop(assets, charts, i, series_collection) ==
    IF i > Len(assets) THEN series_collection
    ELSE NormalizedHistoryLoop(assets, charts, i + 1,
             IF charts[i] # <<>> /\ Normalized(charts[i]) # <<>>
             THEN Append(series_collection,
                         [asset |-> assets[i], series |-> Normalized(charts[i])])
             ELSE series_collection)

\* normalized_history(assets, currency, days)
NormalizedHistory(assets, charts) == NormalizedHistoryLoop(assets, charts, 1, <<>>)

\* the sequences over S of length at most n
SeqsUpTo(S, n) == UNION {[1..k -> S] : k \in 0..n}

\* the points of the charts that are bucketed: two timestamps in the first
\* hour, two in the second, one in the third
MaxPoints == 3
HalfHourMs == 30 * 60 * 1000
TimeStamps == {0, HalfHourMs, 2 * HalfHourMs, 3 * HalfHourMs, 5 * HalfHourMs}
CandlePrices == {1, 2, 3}

\* the closes of the charts that are analyzed, one per hour
MaxCloses == 5
ClosePrices == {1, 2, 30001}
Periods == {2, 3}
Indicators == {s_rsi, s_RSI, s_macd}

\* the charts normalized_history is served for bitcoin; ethereum has no
\* point or the two points of EthereumChart
MaxHistoryPoints == 3
HistoryTimestamps == {<<>>, <<0>>, <<60000>>}
HistoryPrices == {0, 100, 150}
EthereumChart == << <<<<0>>, 10>>, <<<<60000>>, 11>> >>

SeriesOther == UNCHANGED <<clock, regVars, cacheVars, storeVars, concVars>>

\* _build_candles(prices, 60) is entered
BuildCandlesBegin ==
    /\ lastCall = NoCall
    /\ lastCall' = [op |-> "build_candles", prices |-> <<>>, candles |-> <<>>,
                    current_bucket |-> <<>>]
    /\ SeriesOther

\* one iteration of the loop of _build_candles, on the next point of the
\* chart
BuildCandlesStep ==
    /\ lastCall.op = "build_candles"
    /\ Len(lastCall.prices) < MaxPoints
    /\ \E timestamp \in TimeStamps, price \in CandlePrices :
        lastCall' = [op |-> "build_candles",
                     prices |-> Append(lastCall.prices, <<timestamp, price>>),
                     candles |-> CandlesWith(lastCall.candles, lastCall.current_bucket,
                                             <<timestamp, price>>, 2 * HalfHourMs),
                     current_bucket |-> <<BucketOf(timestamp, 2 * HalfHourMs)>>]
    /\ SeriesOther

\* TechnicalAnalysisService.analyze(asset, currency, indicator, "1h", period)
\* on a chart with one point per hour
AnalyzeCall ==
    /\ lastCall = NoCall
    /\ \E closes \in SeqsUpTo(ClosePrices, MaxCloses), period \in Periods,
          indicator \in Indicators :
        lastCall' = [op |-> "analyze", closes |-> closes, period |-> period,
                     indicator |-> indicator,
                     result |-> Analysis(s_bitcoin, ChartOf(closes, HourMs), indicator,
                                         "1h", period)]
    /\ SeriesOther

\* MarketDataService.normalized_history(["bitcoin", "ethereum"], currency)
NormalizedHistoryCall ==
    /\ lastCall = NoCall
    /\ \E bitcoin \in SeqsUpTo(HistoryTimestamps \X HistoryPrices, MaxHistoryPoints),
          ethereum \in {<<>>, EthereumChart} :
        lastCall' = [op |-> "normalized_history",
                     assets |-> <<s_bitcoin, s_ethereum>>,
                     charts |-> <<bitcoin, ethereum>>,
                     result |-> NormalizedHistory(<<s_bitcoin, s_ethereum>>,
                                                  <<bitcoin, ethereum>>)]
    /\ SeriesOther

\* the keys of TIMEFRAME_TO_MINUTES
Timeframes == {"1h", "2h", "4h", "6h", "12h", "1d"}

\* a complete series of the last days days: one point every step ms from
\* start to start + days * 24 h, the price moving up and down
CompleteChart(days, start, step) ==
    [i \in 1..((days * 24 * HourMs) \div step + 1) |->
        <<start + (i - 1) * step, 100 + (i % 3)>>]

\* the instants the series may start at, and the distances of its points:
\* an hour, and half an hour too when one day is requested
SpanStarts == {0, 20 * 60 * 1000, 3 * HalfHourMs}
SpanSteps(days) == IF days = 1 THEN {HalfHourMs, HourMs} ELSE {HourMs}

\* TechnicalAnalysisService.analyze(asset, currency, "rsi", timeframe) when
\* the provider returns the complete series of the days requested
AnalyzeSpanCall ==
    /\ lastCall = NoCall
    /\ \E timeframe \in Timeframes, start \in SpanStarts :
        \E days \in {AnalysisDays(TimeframeMinutes(timeframe))} :
         \E step \in SpanSteps(days) :
          lastCall' = [op |-> "analyze_span", timeframe |-> timeframe, days |-> days,
                       start |-> start, step |-> step,
                       result |-> Analysis(s_bitcoin, CompleteChart(days, start, step),
                                           s_rsi, timeframe, rsi_period)]
    /\ SeriesOther

SeriesNext ==
    \/ BuildCandlesBegin
    \/ BuildCandlesStep
    \/ AnalyzeCall
    \/ AnalyzeSpanCall
    \/ NormalizedHistoryCall

---------------------------------------------------------------------------
(* The services on the JSON store, calls run one at a time, on a path that *)
(* may hold something else than the data the store wrote.                  *)

MaxListIds == 3

\* what the path may hold: the text of {"users": file}, text json.loads
\* rejects, the JSON text of a value that is no object, or no file at all
DiskKinds == {"json", "not_json", "not_object", "absent"}

\* _read, lines 25-31: the value of json.loads(self.path.read_text()), or
\* the exception that leaves _read; only JSONDecodeError is caught
ReadFile(on_disk, users) ==
    CASE on_disk = "json" -> [error |-> "none", is_dict |-> TRUE, users |-> users]
      [] on_disk = "not_json" -> [error |-> "none", is_dict |-> TRUE, users |-> EmptyMap]
      [] on_disk = "not_object" ->
           [error |-> "none", is_dict |-> FALSE, users |-> EmptyMap]
      [] on_disk = "absent" ->
           [error |-> "FileNotFoundError", is_dict |-> FALSE, users |-> EmptyMap]

\* get_user_state, lines 37-44; data.setdefault needs a dict
StoredUserState(on_disk, users, user_id) ==
    LET data == ReadFile(on_disk, users)
    IN  IF data.error # "none" THEN [error |-> data.error, state |-> DefaultState]
        ELSE IF ~data.is_dict THEN [error |-> "AttributeError", state |-> DefaultState]
        ELSE [error |-> "none", state |-> UserState(data.users, user_id)]

\* update_user_state, lines 46-49: what the path holds afterwards
UpdatedStore(on_disk, users, user_id, state) ==
    LET data == ReadFile(on_disk, users)
    IN  IF data.error # "none"
        THEN [error |-> data.error, disk |-> on_disk, users |-> users]
        ELSE IF ~data.is_dict
        THEN [error |-> "AttributeError", disk |-> on_disk, users |-> users]
        ELSE [error |-> "none", disk |-> "json",
              users |-> SetUser(data.users, user_id, state)]

\* a service method on the store: get_user_state, the change of the local
\* state, update_user_state (get_watchlist and get_user_state write nothing)
\* and the return
StoreCallOutcome(on_disk, users, call) ==
    LET got == StoredUserState(on_disk, users, call.user)
        state == Mutated(got.state, call)
        upd == UpdatedStore(on_disk, users, call.user, state)
    IN  IF got.error # "none"
        THEN [error |-> got.error, disk |-> on_disk, users |-> users, result |-> <<>>]
        ELSE IF call.kind \in {"get_watchlist", "get_user_state"}
        THEN [error |-> "none", disk |-> on_disk, users |-> users,
              result |-> <<Returned(state, call)>>]
        ELSE IF upd.error # "none"
        THEN [error |-> upd.error, disk |-> on_disk, users |-> users, result |-> <<>>]
        ELSE [error |-> "none", disk |-> upd.disk, users |-> upd.users,
              result |-> <<Returned(state, call)>>]

ListsOther ==
    UNCHANGED <<clock, regVars, cacheVars, concVars, lock, spc, sop, sdata, sstate, sret,
                lastWrite>>

\* the call runs on what the path holds now
StoreCall(call) ==
    \E o \in {StoreCallOutcome(disk, file, call)} :
        /\ disk' = o.disk
        /\ file' = o.users
        /\ lastCall' = [op |-> call.kind, user |-> call.user, call |-> call,
                        disk |-> disk, error |-> o.error, result |-> o.result]
        /\ ListsOther

\* the arguments of the watchlist methods
WatchArgs == {s_BTC, s_btc, s_bitcoin}

\* the arguments of add_position
ListPositionArgs == {args \in PositionArgs : args.asset = s_bitcoin}

\* PortfolioService.add_position; nextId is the uuid4 it draws
AddPositionOnPath ==
    /\ nextId <= MaxListIds
    /\ \E args \in ListPositionArgs :
        StoreCall([kind |-> "add_position", user |-> args.user, asset |-> args.asset,
                   amount |-> args.amount, cost_basis |-> args.cost_basis, id |-> nextId])
    /\ nextId' = nextId + 1

\* PortfolioService.delete_position(user_id, position_id)
DeletePositionOnPath ==
    /\ \E user \in Users, position_id \in 1..MaxListIds :
        StoreCall([IdleCall EXCEPT !.kind = "delete_position", !.user = user,
                                   !.id = position_id])
    /\ UNCHANGED nextId

\* PortfolioService.add_watch_asset(user_id, asset)
AddWatchAssetOnPath ==
    /\ \E asset \in WatchArgs :
        StoreCall([IdleCall EXCEPT !.kind = "add_watch_asset", !.asset = asset])
    /\ UNCHANGED nextId

\* PortfolioService.remove_watch_asset(user_id, asset)
RemoveWatchAssetOnPath ==
    /\ \E asset \in WatchArgs :
        StoreCall([IdleCall EXCEPT !.kind = "remove_watch_asset", !.asset = asset])
    /\ UNCHANGED nextId

\* PortfolioService.get_watchlist(user_id)
GetWatchlistOnPath ==
    /\ StoreCall([IdleCall EXCEPT !.kind = "get_watchlist"])
    /\ UNCHANGED nextId

\* AgentDataStore.get_user_state(user_id), as the readers of the positions
\* and alerts call it
GetUserStateOnPath ==
    /\ \E user \in Users : StoreCall([IdleCall EXCEPT !.kind = "get_user_state",
                                                      !.user = user])
    /\ UNCHANGED nextId

\* AlertService.add_alert(user_id, description, condition)
AddAlertOnPath ==
    /\ nextId <= MaxListIds
    /\ StoreCall([IdleCall EXCEPT !.kind = "add_alert", !.id = nextId])
    /\ nextId' = nextId + 1

\* AgentDataStore(path), lines 18-23: a path without a file gets the empty
\* store; any other content is left as it is
ConstructStore ==
    /\ disk' = IF disk = "absent" THEN "json" ELSE disk
    /\ file' = IF disk = "absent" THEN EmptyMap ELSE file
    /\ lastCall' = [op |-> "construct", user |-> "alice", call |-> IdleCall,
                    disk |-> disk, error |-> "none", result |-> <<>>]
    /\ UNCHANGED nextId
    /\ ListsOther

\* the file is removed or overwritten from outside the program
PathBecomes ==
    /\ \E kind \in DiskKinds \ {"json"} : disk' = kind
    /\ file' = EmptyMap
    /\ UNCHANGED <<lastCall, nextId>>
    /\ ListsOther

ListsNext ==
    \/ AddPositionOnPath
    \/ DeletePositionOnPath
    \/ AddWatchAssetOnPath
    \/ RemoveWatchAssetOnPath
    \/ GetWatchlistOnPath
    \/ GetUserStateOnPath
    \/ AddAlertOnPath

FileNext == ListsNext \/ ConstructStore \/ PathBecomes

---------------------------------------------------------------------------
(* Resolution when the provider returns one set of coins in any order.     *)

s_ether == <<101, 116, 104, 101, 114>>
s_solana_2 == <<115, 111, 108, 97, 110, 97, 45, 50>>

\* the coins of the list: two with ticker abc whose ids start with it, two
\* with ticker uni whose ids do not, a coin whose id is an override key, a
\* coin whose ticker is an override value, and a coin whose id is the ticker
\* of another one
CollidingCoins ==
    { Coin(s_abcoin, s_abc), Coin(s_abc_x, s_abc), Coin(s_zuni, s_uni),
      Coin(s_auni, s_uni) }
OtherCoins ==
    << Coin(s_eth, s_ether), Coin(s_solana_2, s_solana), Coin(s_link, s_lnk),
       Coin(s_chainlink, s_link) >>

\* the sequences that list every element of S once
RECURSIVE Orders(_)
Orders(S) ==
    IF S = {} THEN {<<>>}
    ELSE UNION {{<<x>> \o rest : rest \in Orders(S \ {x})} : x \in S}

\* what list_coins() may return
ListedOrders == {order \o OtherCoins : order \in Orders(CollidingCoins)}

\* the order resolutions are compared with
ReferenceOrder ==
    << Coin(s_abcoin, s_abc), Coin(s_abc_x, s_abc), Coin(s_zuni, s_uni),
       Coin(s_auni, s_uni) >> \o OtherCoins

\* the symbols that are resolved
ListedSymbols ==
    {s_abc, s_uni, s_ether, s_sol, s_BTC, s_abc_x, s_lnk, s_UNKNOWNCOIN123}

\* _resolve_single_asset when list_coins() returns coins: the id returned,
\* the registry left behind and whether it was refreshed
ResolveOnList(asset, reg, now, coins) ==
    IF asset \in DOMAIN COMMON_ASSET_OVERRIDES
    THEN [out |-> COMMON_ASSET_OVERRIDES[asset], reg |-> reg, refreshed |-> FALSE]
    ELSE IF RegistryFresh(reg, now)
    THEN [out |-> LookupAsset(asset, reg), reg |-> reg, refreshed |-> FALSE]
    ELSE [out |-> LookupAsset(asset, RefreshLoaded(reg, now, coins)),
          reg |-> RefreshLoaded(reg, now, coins), refreshed |-> TRUE]

\* the list the registry was loaded from
LoadedOrder == IF lastCall.op = "resolve_listed" THEN lastCall.coins ELSE <<>>

\* MarketDataService.resolve_symbol(symbol) when list_coins() returns coins
ResolveListedCall ==
    \E symbol \in ListedSymbols :
      \E coins \in IF Strip(Lower(symbol)) \in DOMAIN COMMON_ASSET_OVERRIDES
                      \/ RegistryFresh(CurrentRegistry, clock)
                   THEN {<<>>} ELSE ListedOrders :
        \E r \in {ResolveOnList(Strip(Lower(symbol)), CurrentRegistry, clock, coins)} :
          /\ RegistryBecomes(r.reg)
          /\ lastCall' = [op |-> "resolve_listed", input |-> symbol, result |-> r.out,
                          coins |-> IF r.refreshed THEN coins ELSE LoadedOrder,
                          error |-> "none"]
          /\ UNCHANGED <<clock, reqLog, cacheVars, storeVars, concVars>>

OrderNext == Tick \/ ResolveListedCall

---------------------------------------------------------------------------
(* The specifications.                                                     *)

Init == RegistryInit /\ CacheInit /\ StoreInit /\ ConcInit

\* the registry, calls run one at a time
Spec == Init /\ [][RegistryNext]_vars

\* the response caches, calls run one at a time
SpecCache == Init /\ [][CacheNext]_vars

\* the entry points that resolve their argument, calls run one at a time
SpecEntry == Init /\ [][EntryNext]_vars

\* the alert service on a portfolio, calls run one at a time
SpecService == Init /\ [][ServiceNext]_vars

\* the portfolio service, calls run one at a time
SpecPortfolio == Init /\ [][PortfolioNext]_vars

\* the series functions, one call per behaviour
SpecSeries == Init /\ [][SeriesNext]_vars

\* the store under concurrent service calls
SpecStore == Init /\ [][StoreNext]_vars

\* the registry under concurrent resolutions
SpecConc == Init /\ [][ConcNext]_vars

\* compare_assets on argument lists of every shape, calls run one at a time
SpecCompare == Init /\ [][CompareListsCall]_vars

\* resolutions on a coin list returned in any order
SpecOrder == Init /\ [][OrderNext]_vars

\* the services on the store, calls run one at a time
SpecLists == Init /\ [][ListsNext]_vars

\* the same on a path whose file may be removed or overwritten
SpecFile == Init /\ [][FileNext]_vars

---------------------------------------------------------------------------
(* Claims about the registry, checked under Spec.                          *)

LastStep == lastCall.steps[Len(lastCall.steps)]

HasRequest(call, kind) == \E i \in 1..Len(call.steps) : call.steps[i].req = kind

\* C1: a symbol that is, lowercased and trimmed, a key of the override table
\* resolves to the override value in every registry state, and no list_coins
\* request is issued for it.
C1_OverrideWins ==
    /\ \A i \in 1..Len(lastCall.steps) :
         LET st == lastCall.steps[i]
         IN  st.asset \in DOMAIN COMMON_ASSET_OVERRIDES
               => st.out = COMMON_ASSET_OVERRIDES[st.asset] /\ st.req = "none"
    /\ (Len(lastCall.input) = 1 /\ lastCall.input[1] # <<>>
        /\ Strip(Lower(lastCall.input[1])) \in DOMAIN COMMON_ASSET_OVERRIDES)
         => lastCall.result = <<COMMON_ASSET_OVERRIDES[Strip(Lower(lastCall.input[1]))]>>

\* "sol" resolved to "solana" while the loaded registry has expired and holds
\* a coin whose id is "sol"
C1_Witness ==
    /\ lastCall.input = <<s_sol>>
    /\ lastCall.result = <<s_solana>>
    /\ s_sol \in coin_ids
    /\ clock >= cache_expiry

\* C2: a ticker that is no override and no canonical id and has several
\* candidates resolves to a candidate that starts with the ticker when one
\* exists and to the smallest candidate otherwise; two resolutions of the
\* ticker against the same registry return the same id.
C2_PickState ==
    /\ \A i \in 1..Len(lastCall.steps) :
         LET st == lastCall.steps[i]
         IN  (~st.ov /\ ~st.known /\ Len(st.cands) > 1)
               => /\ st.out \in Range(st.cands)
                  /\ IF \E c \in Range(st.cands) : StartsWith(c, st.asset)
                     THEN StartsWith(st.out, st.asset)
                     ELSE \A d \in Range(st.cands) : st.out = d \/ StrLess(st.out, d)
    /\ (lastCall.steps # <<>> /\ ~LastStep.ov)
         => /\ LastStep.cands = Candidates(CurrentRegistry, LastStep.asset)
            /\ LastStep.known = (LastStep.asset \in coin_ids)

C2_Repeatable ==
    (/\ symbol_cache' = symbol_cache
     /\ coin_ids' = coin_ids
     /\ lastCall.steps # <<>>
     /\ lastCall'.steps # <<>>
     /\ lastCall'.steps[Len(lastCall'.steps)].asset = LastStep.asset)
      => lastCall'.steps[Len(lastCall'.steps)].out = LastStep.out

C2_DeterministicPick == []C2_PickState /\ [][C2_Repeatable]_vars

\* "abc" resolved to "abcoin", the first listed candidate with the prefix, and
\* "uni", which no candidate starts with, to "auni", the smallest
C2_Witness ==
    /\ lastCall.input = <<s_abc, s_uni>>
    /\ lastCall.result = <<s_abcoin, s_auni>>
    /\ lastCall.steps[1].cands = <<s_zabc, s_abcoin, s_abc_x>>
    /\ lastCall.steps[2].cands = <<s_zuni, s_auni>>

ProbeSymbols == {s_abc, s_uni, s_link, s_btc, s_unknowncoin123, s_bitcoin, s_chainlink}

\* C4: a call whose list_coins requests all fail leaves the ticker table and
\* the id set exactly as they were, so every symbol looks up to the same id
\* as before.
C4_FailedRefreshKeepsTables ==
    [][(clock' = clock /\ HasRequest(lastCall', "fail") /\ ~HasRequest(lastCall', "ok"))
         => /\ symbol_cache' = symbol_cache
            /\ coin_ids' = coin_ids
            /\ \A a \in ProbeSymbols :
                 LookupAsset(a, CurrentRegistry')
                   = LookupAsset(a, CurrentRegistry)]_vars

\* a refresh failed on a loaded registry, and the tables are still there
C4_Witness ==
    /\ HasRequest(lastCall, "fail")
    /\ ~HasRequest(lastCall, "ok")
    /\ DOMAIN symbol_cache # {}
    /\ LookupAsset(s_abc, CurrentRegistry) = s_abcoin

\* C10: after a successful refresh at t no list_coins request is issued before
\* t + 3600, and after a failed refresh at t none before t + 120, whether or
\* not a table had been loaded.
C10_NoRequestBeforeExpiry ==
    Len(reqLog) = 2
      => reqLog[2].t >= reqLog[1].t
                          + (IF reqLog[1].ok THEN cache_ttl_seconds
                             ELSE retry_backoff_seconds)

---------------------------------------------------------------------------
(* Claims about the response caches, checked under SpecCache.              *)

\* the entry the call found for its key is younger than 60 s
PreFresh(call) == call.pre # <<>> /\ call.now - call.pre[1].at < 60

OnlyListCoins(requests) == \A i \in 1..Len(requests) : requests[i] = "list_coins"

Issued(requests, name) == \E i \in 1..Len(requests) : requests[i] = name

\* C5: when the price request of compare_assets fails, the value cached for
\* the key is returned if it was stored less than 60 s before (stored at 0,
\* failure at 30); otherwise (failure at 60 or 90, or nothing cached) the
\* MarketDataError reaches the caller.
C5_CompareStaleIfError ==
    (cacheCall.op = "compare_assets" /\ cacheCall.failed)
      => /\ cacheCall.pre = DictGet(comparison_cache, cacheCall.key)
         /\ IF PreFresh(cacheCall)
            THEN /\ cacheCall.outcome = "returned"
                 /\ cacheCall.value = cacheCall.pre[1].value
            ELSE cacheCall.outcome = "MarketDataError"

\* stored at 0, the price request fails at 30: the comparisons of 0 come back
C5_Witness ==
    /\ cacheCall.op = "compare_assets"
    /\ cacheCall.failed
    /\ cacheCall.now = 30
    /\ cacheCall.pre # <<>>
    /\ cacheCall.pre[1].at = 0
    /\ cacheCall.outcome = "returned"
    /\ cacheCall.value = Comparisons(s_bitcoin, <<s_eth, s_sol>>,
                                     <<s_ethereum, s_solana>>, PricePayloads[1])

C6_EntryServedOnError ==
    /\ (cacheCall.op = "compare_assets" /\ cacheCall.failed)
         => /\ cacheCall.outcome = "returned" <=> PreFresh(cacheCall)
            /\ cacheCall.outcome = "returned"
                 => cacheCall.value = cacheCall.pre[1].value
            /\ cacheCall.outcome # "returned"
                 => cacheCall.outcome = "MarketDataError"
    /\ (cacheCall.op = "asset_overview" /\ cacheCall.failed)
         => /\ cacheCall.outcome = "MarketDataError"
            /\ ~PreFresh(cacheCall)
            /\ cacheCall.pre = DictGet(overview_cache, cacheCall.key)

C6_EntriesKept ==
    /\ \A k \in DOMAIN comparison_cache : k \in DOMAIN comparison_cache'
    /\ \A k \in DOMAIN overview_cache : k \in DOMAIN overview_cache'

C7_FreshServedWithoutUpstream ==
    (cacheCall.op \in {"compare_assets", "asset_overview"} /\ PreFresh(cacheCall))
      => /\ cacheCall.source = "cache"
         /\ cacheCall.value = cacheCall.pre[1].value
         /\ cacheCall.requests = <<>>

\* C7, amended: asset_overview returns an entry younger than 60 s and issues
\* no price, chart, detail or OHLC request (the resolution of the symbol may
\* still issue list_coins), and starts a recomputation otherwise;
\* compare_assets issues the price request on every call and reads the entry
\* only when that request fails.
C7_Amended ==
    /\ cacheCall.op = "asset_overview"
         => IF PreFresh(cacheCall)
            THEN /\ cacheCall.outcome = "returned"
                 /\ cacheCall.source = "cache"
                 /\ cacheCall.value = cacheCall.pre[1].value
                 /\ OnlyListCoins(cacheCall.requests)
            ELSE /\ Issued(cacheCall.requests, "simple_price")
                 /\ cacheCall.source # "cache"
    /\ cacheCall.op = "compare_assets"
         => /\ Issued(cacheCall.requests, "simple_price")
            /\ cacheCall.source = "cache" => cacheCall.failed /\ PreFresh(cacheCall)
            /\ ~cacheCall.failed => cacheCall.source = "computed"

\* an overview served from an entry stored 30 s before, with a list_coins
\* request (the registry was empty) and no other request
C7_Witness ==
    /\ cacheCall.op = "asset_overview"
    /\ cacheCall.source = "cache"
    /\ cacheCall.now = 30
    /\ cacheCall.pre[1].at = 0
    /\ cacheCall.requests = <<"list_coins">>

\* a successful comparison computed while an entry younger than 60 s exists
C7_FreshCompareRecomputed ==
    /\ cacheCall.op = "compare_assets"
    /\ PreFresh(cacheCall)
    /\ cacheCall.source = "computed"

\* the price request fails 90 s after the entry was stored
C5_ExpiredFailure ==
    /\ cacheCall.op = "compare_assets"
    /\ cacheCall.failed
    /\ cacheCall.pre # <<>>
    /\ cacheCall.pre[1].at = 0
    /\ cacheCall.now = 90
    /\ cacheCall.outcome = "MarketDataError"

---------------------------------------------------------------------------
(* Claims about the store, checked under SpecStore.                        *)

InWithBlock(t) == spc[t] \in {"read_locked", "reread_locked", "write_locked"}

C8_LostAcrossFields ==
    \E t1 \in Threads, t2 \in Threads :
        /\ spc[t1] = "done" /\ spc[t2] = "done"
        /\ sop[t1].kind = "add_position" /\ sop[t2].kind = "add_watch_asset"
        /\ sop[t1].user = sop[t2].user
        /\ file[sop[t1].user].positions = <<>>
        /\ file[sop[t1].user].watchlist = <<s_btc>>

---------------------------------------------------------------------------
(* Claims about the registry under concurrency, checked under SpecConc.    *)

\* the two tables are both empty or both built from one list_coins() response
FromOneResponse(ids, sym) ==
    \/ ids = {} /\ sym = EmptyMap
    \/ \E k \in 1..Len(CoinLists) :
          /\ ids = BuildIdSet(CoinLists[k])
          /\ sym = BuildSymbolMap(CoinLists[k], EmptyMap)

\* C9: the id set and the ticker table a resolution has read are both empty
\* or both built from the same list_coins() response, also when another
\* thread refreshes the registry meanwhile.
C9_ResolutionSeesOneResponse ==
    \A t \in Resolvers :
        seenIds[t] # <<>> /\ seenSym[t] # <<>>
            => FromOneResponse(seenIds[t][1], seenSym[t][1])

\* the same for the two fields as they stand in every state
C9_TablesFromOneResponse == FromOneResponse(coin_ids, symbol_cache)

\* a resolution has read an id set and a ticker table of different responses
\* and returned an id
C9_MixedRead ==
    \E t \in Resolvers :
        /\ rpc[t] = "done" /\ rout[t] # <<>>
        /\ seenIds[t] # <<>> /\ seenSym[t] # <<>>
        /\ ~FromOneResponse(seenIds[t][1], seenSym[t][1])

---------------------------------------------------------------------------
(* Claims about the entry points, checked under SpecEntry.                 *)

\* every entry of the list is empty or whitespace only
AllBlank(assets) == \A i \in 1..Len(assets) : Strip(assets[i]) = <<>>

\* C11: resolve_symbol and summarize_prices with an argument that holds only
\* blank entries (empty or whitespace-only strings) fail with ValueError, and
\* no upstream request has been issued.
C11_BlankInputRejected ==
    lastCall.op \in {"resolve_symbol", "summarize_prices"} /\ AllBlank(lastCall.input)
        => lastCall.error = "ValueError" /\ lastCall.upstream = <<>>

\* the same for arguments whose entries are all the empty string
C11_EmptyInputRejected ==
    lastCall.op \in {"resolve_symbol", "summarize_prices"}
      /\ (\A i \in 1..Len(lastCall.input) : lastCall.input[i] = <<>>)
        => lastCall.error = "ValueError" /\ lastCall.upstream = <<>>

\* resolve_symbol(" ") has returned the empty string after a list_coins request
C11_BlankResolved ==
    /\ lastCall.op = "resolve_symbol" /\ lastCall.input = <<s_blank>>
    /\ lastCall.error = "none" /\ lastCall.result = <<s_empty>>
    /\ lastCall.upstream = <<"list_coins">>

---------------------------------------------------------------------------
(* C12 (SpecService): price_move alerts.                                   *)

\* the last call was an evaluate_alerts that returned
Evaluated == lastCall.op = "evaluate_alerts" /\ lastCall.error = "none"

\* the coin whose chart the provider serves for a target of the model
ChartedCoin(target) ==
    IF target = s_btc THEN s_bitcoin ELSE IF target = s_eth THEN s_ethereum ELSE target

\* the percent change of a target over the last window_minutes in market m:
\* from the first point inside the window to the last point, and between the
\* last two points when fewer than two are inside
WindowChange(m, target, window_minutes) ==
    LET series == Markets[m].charts[ChartedCoin(target)]
        last == series[Len(series)]
        inside == {i \in 1..Len(series) : series[i][1] >= last[1] - window_minutes * 60000}
        first == IF Cardinality(inside) < 2 THEN Len(series) - 1
                 ELSE CHOOSE i \in inside : \A j \in inside : i <= j
    IN  ((last[2] - series[first][2]) * 100) \div series[first][2]

\* the targets of a price_move condition on the portfolio before the call
TargetsOf(condition, positions) ==
    IF condition.asset = <<s_star>>
    THEN [i \in 1..Len(positions) |-> positions[i].asset]
    ELSE <<condition.asset[1]>>

\* a target matches: "drop" iff change <= -percentage, "rise" iff change >=
\* percentage
TargetMatches(condition, m, target) ==
    LET change == WindowChange(m, target, condition.window_minutes[1])
    IN  IF condition.direction = <<"drop">> THEN change <= -condition.percentage[1]
        ELSE change >= condition.percentage[1]

\* the targets that match, in the order of the targets
MatchingTargets(condition, m, targets) ==
    SelectSeq(targets, LAMBDA t : TargetMatches(condition, m, t))

\* C12: an evaluated price_move alert is "triggered" with context.matches
\* listing exactly the matching targets and their changes when some target
\* matches, and "armed" with context.checked_assets listing all targets when
\* none does; the targets are the assets of the portfolio for "*" and the
\* named asset otherwise
C12_PriceMoveMatching ==
    Evaluated =>
        \A i \in 1..Len(lastCall.result) :
            LET alert == lastCall.result[i]
                condition == alert.condition
                targets == TargetsOf(condition, UserState(file, "alice").positions)
                matching == MatchingTargets(condition, lastCall.market, targets)
            IN  condition.type = "price_move" =>
                    IF matching # <<>>
                    THEN /\ alert.status = "triggered"
                         /\ DOMAIN alert.context[1] = {"matches"}
                         /\ [j \in 1..Len(alert.context[1].matches) |->
                                alert.context[1].matches[j].asset] = matching
                         /\ \A j \in 1..Len(matching) :
                                alert.context[1].matches[j].change_pct
                                    = WindowChange(lastCall.market, matching[j],
                                                   condition.window_minutes[1])
                    ELSE /\ alert.status = "armed"
                         /\ alert.context[1] = [checked_assets |-> targets]

\* drop 5 % over a portfolio of btc (-6 %) and eth (-2 %): triggered with
\* matches = [btc]
C12_Witness ==
    /\ Evaluated
    /\ lastCall.market = 1
    /\ Len(lastCall.result) = 1
    /\ lastCall.result[1].condition = Conditions[1]
    /\ Len(UserState(file, "alice").positions) = 2
    /\ UserState(file, "alice").positions[1].asset = s_btc
    /\ UserState(file, "alice").positions[2].asset = s_eth
    /\ WindowChange(1, s_btc, 60) = -6
    /\ WindowChange(1, s_eth, 60) = -2
    /\ lastCall.result[1].status = "triggered"
    /\ Len(lastCall.result[1].context[1].matches) = 1
    /\ lastCall.result[1].context[1].matches[1].asset = s_btc

---------------------------------------------------------------------------
(* C13 (SpecService): every evaluation recomputes and persists.            *)

\* the RSI, in hundredths, of the 4 h candles the provider's chart of a coin
\* gives in market m: 8 gains and 8 losses of the same size give 50, losses
\* only 0, gains only 100, and fewer than 16 closes no value
RsiIn(m, coin) ==
    IF m = 1 /\ coin = s_bitcoin THEN <<5000>>
    ELSE IF m = 1 /\ coin = s_ethereum THEN <<0>>
    ELSE IF m = 3 /\ coin = s_bitcoin THEN <<10000>>
    ELSE <<>>

\* the condition of an alert is met by the data of market m; for an
\* indicator_threshold condition with the operator "lt" or "gt"
MetIn(condition, m, positions) ==
    IF condition.type = "price_move"
    THEN MatchingTargets(condition, m, TargetsOf(condition, positions)) # <<>>
    ELSE LET value == RsiIn(m, ChartedCoin(condition.asset[1]))
         IN  /\ condition.type = "indicator_threshold"
             /\ value # <<>>
             /\ IF condition.operator = <<"lt">>
                THEN value[1] < condition.threshold[1] * 100
                ELSE value[1] > condition.threshold[1] * 100

\* the conditions the claim's "condition is met" is defined for
Decidable(condition) ==
    \/ condition.type = "price_move"
    \/ condition.type = "indicator_threshold" /\ condition.operator # <<>>

\* after an evaluate_alerts call that returned, every alert with a decidable
\* condition is "triggered" iff its condition is met by the data of that
\* call, and "armed" otherwise, whatever its status was before
StatusFromCurrentData ==
    Evaluated =>
        \A i \in 1..Len(lastCall.result) :
            LET alert == UserState(file, "alice").alerts[i]
            IN  Decidable(alert.condition) =>
                    alert.status
                        = IF MetIn(alert.condition, lastCall.market,
                                   UserState(file, "alice").positions)
                          THEN "triggered" ELSE "armed"

\* what the call returns is what a following read of the record yields
ReturnedIsPersisted ==
    Evaluated =>
        /\ Len(lastCall.result) = Len(UserState(file, "alice").alerts)
        /\ \A i \in 1..Len(lastCall.result) :
            LET alert == UserState(file, "alice").alerts[i]
            IN  /\ lastCall.result[i].status = alert.status
                /\ lastCall.result[i].last_observed = alert.last_observed
                /\ lastCall.result[i].context = alert.context

\* between evaluations the alerts keep their status
KeptBetweenEvaluations ==
    lastCall'.op # "evaluate_alerts" =>
        \A i \in 1..Len(UserState(file, "alice").alerts) :
            UserState(file', "alice").alerts[i] = UserState(file, "alice").alerts[i]

\* C13: each evaluate_alerts call recomputes every alert's status from the
\* data of that call alone and persists it; a triggered alert keeps its
\* status until an evaluation in which the condition is not met makes it
\* "armed"; the returned status, last_observed and context are those of the
\* persisted record
C13_RecomputedAndPersisted ==
    /\ [](StatusFromCurrentData /\ ReturnedIsPersisted)
    /\ [][KeptBetweenEvaluations]_vars

\* an alert that an earlier evaluation triggered, as its triggered_at tells,
\* is "armed" after an evaluation in which its condition is not met, and the
\* record holds what was returned
C13_Witness ==
    /\ Evaluated
    /\ Len(lastCall.result) >= 1
    /\ lastCall.result[1].condition.type = "price_move"
    /\ lastCall.result[1].triggered_at # <<>>
    /\ ~MetIn(lastCall.result[1].condition, lastCall.market,
              UserState(file, "alice").positions)
    /\ lastCall.result[1].status = "armed"
    /\ UserState(file, "alice").alerts[1].status = "armed"
    /\ UserState(file, "alice").alerts[1].context = lastCall.result[1].context

---------------------------------------------------------------------------
(* C14 (SpecService): indicator_threshold alerts.                          *)

\* the indicator_threshold alerts of the last evaluation
IndicatorAlerts ==
    {i \in 1..Len(lastCall.result) :
        lastCall.result[i].condition.type = "indicator_threshold"}

\* the value analyze returned is the RSI of the provider's chart
ObservedIsRsi ==
    Evaluated =>
        \A i \in IndicatorAlerts :
            lastCall.result[i].last_observed
                = RsiIn(lastCall.market, ChartedCoin(lastCall.result[i].condition.asset[1]))

\* C14: an evaluated indicator_threshold alert is "triggered" iff the value
\* is not null and (operator is "lt" and value < threshold, or operator is
\* "gt" and value > threshold), and "armed" otherwise
C14_TriggersIffOperatorHolds ==
    Evaluated =>
        \A i \in IndicatorAlerts :
            LET alert == lastCall.result[i]
                value == alert.last_observed
                threshold == alert.condition.threshold[1] * 100
            IN  /\ alert.status \in {"triggered", "armed"}
                /\ alert.status = "triggered"
                   <=> /\ value # <<>>
                       /\ \/ alert.condition.operator = <<"lt">> /\ value[1] < threshold
                          \/ alert.condition.operator = <<"gt">> /\ value[1] > threshold

\* the same for the alerts whose operator is "lt" or "gt": no value never
\* triggers, and a value equal to the threshold does not trigger
C14_HoldsForLtAndGt ==
    Evaluated =>
        \A i \in IndicatorAlerts :
            LET alert == lastCall.result[i]
                value == alert.last_observed
                threshold == alert.condition.threshold[1] * 100
            IN  /\ value = <<>> => alert.status = "armed"
                /\ alert.condition.operator # <<>> =>
                    (alert.status = "triggered"
                     <=> /\ value # <<>>
                         /\ \/ alert.condition.operator = <<"lt">> /\ value[1] < threshold
                            \/ alert.condition.operator = <<"gt">> /\ value[1] > threshold)

\* an alert created without an operator is triggered by a value above its
\* threshold
C14_NoOperatorTriggered ==
    /\ Evaluated
    /\ \E i \in IndicatorAlerts :
        /\ lastCall.result[i].condition.operator = <<>>
        /\ lastCall.result[i].last_observed = <<5000>>
        /\ lastCall.result[i].condition.threshold = <<30>>
        /\ lastCall.result[i].status = "triggered"

\* a value equal to the threshold of a "gt" alert leaves it armed
C14_EqualityArmed ==
    /\ Evaluated
    /\ \E i \in IndicatorAlerts :
        /\ lastCall.result[i].condition.operator = <<"gt">>
        /\ lastCall.result[i].last_observed = <<5000>>
        /\ lastCall.result[i].condition.threshold = <<50>>
        /\ lastCall.result[i].status = "armed"

---------------------------------------------------------------------------
(* C15 (SpecService): the frame of evaluate_alerts.                        *)

\* the fields of an alert evaluate_alerts may change
EvaluatedFields == {"status", "last_observed", "triggered_at", "context"}

\* two alerts agree on every field evaluate_alerts may not change
SameOutsideEvaluation(before, after) ==
    /\ DOMAIN before \ EvaluatedFields = DOMAIN after \ EvaluatedFields
    /\ \A f \in DOMAIN before \ EvaluatedFields : after[f] = before[f]

\* what an evaluate_alerts call may do to the file
EvaluationStep ==
    lastCall'.op = "evaluate_alerts" =>
        LET before == UserState(file, "alice")
            after == UserState(file', "alice")
        IN  /\ Len(after.alerts) = Len(before.alerts)
            /\ \A i \in 1..Len(before.alerts) :
                /\ SameOutsideEvaluation(before.alerts[i], after.alerts[i])
                /\ after.alerts[i].id = before.alerts[i].id
                /\ after.alerts[i].description = before.alerts[i].description
                /\ after.alerts[i].condition = before.alerts[i].condition
                /\ after.alerts[i].created_at = before.alerts[i].created_at
                /\ lastCall'.error = "none"
                   /\ after.alerts[i].condition.type
                        \notin {"price_move", "indicator_threshold"}
                   => after.alerts[i].status = "unsupported"
            /\ after.positions = before.positions
            /\ after.watchlist = before.watchlist
            /\ DOMAIN file' \ {"alice"} = DOMAIN file \ {"alice"}
            /\ \A u \in DOMAIN file \ {"alice"} : file'[u] = file[u]
            /\ lastCall'.error # "none" => file' = file

\* C15: an evaluate_alerts call changes only status, last_observed,
\* triggered_at and context of the user's alerts; the list keeps its length
\* and order, id, description, condition and created_at keep their values;
\* the user's positions and watchlist and the records of the other users are
\* unchanged; an alert of an unknown type has status "unsupported"; a call
\* that raises leaves the file as it was
C15_EvaluationFrame == [][EvaluationStep]_vars

\* an evaluation that triggered an alert of the user next to an alert of an
\* unknown type, while another user has a record
C15_Witness ==
    /\ Evaluated
    /\ "bob" \in DOMAIN file
    /\ Len(lastCall.result) = 2
    /\ \E i \in 1..2 :
        /\ UserState(file, "alice").alerts[i].condition.type = "custom"
        /\ UserState(file, "alice").alerts[i].status = "unsupported"
    /\ \E i \in 1..2 :
        /\ UserState(file, "alice").alerts[i].condition.type = "price_move"
        /\ UserState(file, "alice").alerts[i].status = "triggered"
        /\ UserState(file, "alice").alerts[i].triggered_at # <<>>

\* an evaluation that raised on its second alert: the result written into the
\* first is not persisted
C15_RaisedWitness ==
    /\ lastCall.op = "evaluate_alerts"
    /\ lastCall.error = "MarketDataError"
    /\ Len(UserState(file, "alice").alerts) = 2
    /\ UserState(file, "alice").alerts[1].condition = Conditions[4]
    /\ MetIn(Conditions[4], lastCall.market, <<>>)
    /\ UserState(file, "alice").alerts[1].status = "armed"
    /\ "context" \notin DOMAIN UserState(file, "alice").alerts[1]

---------------------------------------------------------------------------
(* C16 (SpecPortfolio): the valuation of the positions.                    *)

\* the last call was a summarize_portfolio that returned
Summarized == lastCall.op = "summarize_portfolio" /\ lastCall.error = "none"

\* the provider's quote of the coin a position's asset stands for in market
\* m, <<>> when the provider has none
LiveQuote(m, asset) ==
    IF ChartedCoin(asset) \in DOMAIN Markets[m].quotes
    THEN <<Markets[m].quotes[ChartedCoin(asset)]>>
    ELSE <<>>

\* C16: in a summary every stored position appears exactly once, in order,
\* with current_value = price x amount and cost_value = amount x cost_basis,
\* where price is the provider's quote of the position's coin whenever one
\* exists, also for a position added by ticker, and 0 only when none exists
C16_PositionsValuedAtQuote ==
    Summarized =>
        LET positions == UserState(file, lastCall.user).positions
            rows == lastCall.result[1].positions
        IN  /\ Len(rows) = Len(positions)
            /\ \A i \in 1..Len(positions) :
                LET quote == LiveQuote(lastCall.market, positions[i].asset)
                IN  /\ rows[i].id = positions[i].id
                    /\ rows[i].asset = positions[i].asset
                    /\ rows[i].current_price = IF quote # <<>> THEN quote[1] ELSE 0
                    /\ rows[i].current_value = rows[i].current_price * positions[i].amount
                    /\ rows[i].cost_value = positions[i].amount * positions[i].cost_basis

\* the same with the claim's rule for the price limited to positions stored
\* under the coin id
C16_HoldsForCoinIds ==
    Summarized =>
        LET positions == UserState(file, lastCall.user).positions
            rows == lastCall.result[1].positions
        IN  /\ Len(rows) = Len(positions)
            /\ \A i \in 1..Len(positions) :
                LET quote == LiveQuote(lastCall.market, positions[i].asset)
                IN  /\ rows[i].id = positions[i].id
                    /\ positions[i].asset = ChartedCoin(positions[i].asset)
                       => rows[i].current_price = IF quote # <<>> THEN quote[1] ELSE 0
                    /\ rows[i].current_value = rows[i].current_price * positions[i].amount
                    /\ rows[i].cost_value = positions[i].amount * positions[i].cost_basis

\* a position added as "BTC" is listed at price 0 while the provider quotes
\* bitcoin at 100
C16_TickerValuedAtZero ==
    /\ Summarized
    /\ lastCall.market = 1
    /\ \E i \in 1..Len(lastCall.result[1].positions) :
        /\ lastCall.result[1].positions[i].asset = s_btc
        /\ lastCall.result[1].positions[i].current_price = 0
        /\ lastCall.result[1].requested = <<s_bitcoin>>
        /\ LiveQuote(1, s_btc) = <<100>>

---------------------------------------------------------------------------
(* C17 (SpecPortfolio): totals, weights and pnl_pct.                       *)

\* the sum of a field over the rows
FieldSum(rows, field) == Sum([i \in 1..Len(rows) |-> rows[i][field]])

\* a quotient a / b * 100 is zero
IsZero(pct) == pct.num = 0

\* C17: totals.pnl_abs is the sum of the rows' pnl_abs and totals.value the
\* sum of their current_value; the weights sum to 100 when the total value is
\* greater than 0 and are all 0 when it is 0; pnl_pct is 0 when the cost
\* value it is divided by is 0
C17_TotalsAndWeights ==
    Summarized =>
        LET summary == lastCall.result[1]
            rows == summary.positions
            weights == [i \in 1..Len(rows) |-> summary.breakdown[i].weight_pct]
        IN  /\ summary.totals.pnl_abs = FieldSum(rows, "pnl_abs")
            /\ summary.totals.value = FieldSum(rows, "current_value")
            /\ Len(summary.breakdown) = Len(rows)
            /\ IF summary.totals.value > 0
               THEN /\ \A i \in 1..Len(rows) : weights[i].den = summary.totals.value
                    /\ Sum([i \in 1..Len(rows) |-> weights[i].num])
                         = 100 * summary.totals.value
               ELSE \A i \in 1..Len(rows) : IsZero(weights[i])
            /\ \A i \in 1..Len(rows) :
                rows[i].cost_value = 0 => IsZero(rows[i].pnl_pct) /\ rows[i].pnl_pct.den # 0
            /\ summary.totals.invested = 0
               => IsZero(summary.totals.pnl_pct) /\ summary.totals.pnl_pct.den # 0

\* a summary of two positions with a total value above 0, one of them with a
\* cost value of 0
C17_Witness ==
    /\ Summarized
    /\ Len(lastCall.result[1].positions) = 2
    /\ lastCall.result[1].totals.value > 0
    /\ lastCall.result[1].positions[1].current_value > 0
    /\ lastCall.result[1].positions[2].current_value > 0
    /\ \E i \in 1..2 : /\ lastCall.result[1].positions[i].cost_value = 0
                       /\ IsZero(lastCall.result[1].positions[i].pnl_pct)

\* a summary with positions and a total value of 0: all weights are 0
C17_ZeroTotal ==
    /\ Summarized
    /\ Len(lastCall.result[1].positions) >= 1
    /\ lastCall.result[1].totals.value = 0
    /\ \A i \in 1..Len(lastCall.result[1].breakdown) :
        IsZero(lastCall.result[1].breakdown[i].weight_pct)

---------------------------------------------------------------------------
(* C18 (SpecSeries): the shapes of the RSI outcome of analyze.             *)

\* the last call was an analyze
Analyzed == lastCall.op = "analyze"

\* analyze computes an RSI: the indicator is "rsi" in any case and at least
\* period + 2 closes are available
RsiComputed ==
    /\ lastCall.indicator \in {s_rsi, s_RSI}
    /\ Len(lastCall.closes) >= lastCall.period + 2

\* the value is null with state "unknown" exactly when no RSI is computed,
\* and a number from 0 to 100 with another state otherwise
NullOrBounded ==
    IF RsiComputed
    THEN /\ lastCall.result.value # <<>>
         /\ lastCall.result.value[1] >= 0
         /\ lastCall.result.value[1] <= 10000
         /\ lastCall.result.state \in {"overbought", "oversold", "neutral"}
    ELSE /\ lastCall.result.value = <<>>
         /\ lastCall.result.state = "unknown"

C18_OneCloseShort ==
    /\ Analyzed
    /\ lastCall.indicator = s_rsi
    /\ Len(lastCall.closes) = lastCall.period + 1
    /\ lastCall.result.value = <<>>
    /\ lastCall.result.state = "unknown"

---------------------------------------------------------------------------
(* C19 (SpecSeries): candlestick bucketing.                                *)

\* the loop of _build_candles is running
Bucketing == lastCall.op = "build_candles"

\* the timestamps of the points consumed so far do not decrease
NonDecreasing(prices) ==
    \A i \in 1..(Len(prices) - 1) : prices[i][1] <= prices[i + 1][1]

\* the hour a point falls into, and the hour a candle stands for
HourOf(point) == point[1] \div (2 * HalfHourMs)
HourOfCandle(candle) == (candle.timestamp[1] * 1000 + candle.timestamp[2]) \div (2 * HalfHourMs)

\* the prices of the points of one hour, in the order of the series
PricesOfHour(prices, hour) ==
    LET points == SelectSeq(prices, LAMBDA point : HourOf(point) = hour)
    IN  [i \in 1..Len(points) |-> points[i][2]]

\* one candle per distinct bucket, in increasing bucket order, each with the
\* first, last, greatest and least price of its bucket
OneCandlePerBucket ==
    Bucketing /\ NonDecreasing(lastCall.prices) =>
        LET prices == lastCall.prices
            candles == lastCall.candles
        IN  /\ Len(candles) = Cardinality({HourOf(prices[i]) : i \in 1..Len(prices)})
            /\ \A k \in 1..(Len(candles) - 1) :
                HourOfCandle(candles[k]) < HourOfCandle(candles[k + 1])
            /\ \A k \in 1..Len(candles) :
                LET inside == PricesOfHour(prices, HourOfCandle(candles[k]))
                IN  /\ inside # <<>>
                    /\ candles[k].open = inside[1]
                    /\ candles[k].close = inside[Len(inside)]
                    /\ \A i \in 1..Len(inside) :
                        candles[k].low <= inside[i] /\ inside[i] <= candles[k].high
                    /\ \E i \in 1..Len(inside) : candles[k].high = inside[i]
                    /\ \E i \in 1..Len(inside) : candles[k].low = inside[i]
                    /\ candles[k].low <= candles[k].open
                    /\ candles[k].open <= candles[k].high
                    /\ candles[k].low <= candles[k].close
                    /\ candles[k].close <= candles[k].high

\* the candles of the loop are those _build_candles returns for the points
\* consumed so far
LoopGivesBuildCandles ==
    Bucketing => lastCall.candles = BuildCandles(lastCall.prices, 60)

\* an iteration of the loop keeps every candle that exists, with its
\* timestamp and its open
OpenKept ==
    Bucketing /\ lastCall'.op = "build_candles" =>
        /\ Len(lastCall'.candles) >= Len(lastCall.candles)
        /\ \A k \in 1..Len(lastCall.candles) :
            /\ lastCall'.candles[k].open = lastCall.candles[k].open
            /\ lastCall'.candles[k].timestamp = lastCall.candles[k].timestamp

\* C19: bucketing a series with non-decreasing timestamps yields exactly one
\* candle per distinct bucket, in increasing bucket order; open is the first
\* price of the bucket, close the last, high the maximum, low the minimum, so
\* low <= open <= high and low <= close <= high; open is never changed after
\* the candle is created
C19_CandlesOfBuckets ==
    /\ []OneCandlePerBucket
    /\ [][OpenKept]_vars

\* three points of the first hour with the prices 2, 3, 1 and one candle
C19_Witness ==
    /\ Bucketing
    /\ NonDecreasing(lastCall.prices)
    /\ Len(lastCall.prices) = 3
    /\ PricesOfHour(lastCall.prices, 0) = <<2, 3, 1>>
    /\ lastCall.candles = << [timestamp |-> <<0, 0>>, open |-> 2, high |-> 3, low |-> 1,
                              close |-> 1] >>

\* timestamps that go back give two candles for one bucket
C19_UnsortedDuplicates ==
    /\ Bucketing
    /\ ~NonDecreasing(lastCall.prices)
    /\ Len(lastCall.candles) = 3
    /\ HourOfCandle(lastCall.candles[1]) = HourOfCandle(lastCall.candles[3])

---------------------------------------------------------------------------
(* C20 (SpecSeries): normalized_history.                                   *)

\* the last call was a normalized_history
Normalizing == lastCall.op = "normalized_history"

\* the entries of the result for an asset
EntriesOf(asset) ==
    {k \in 1..Len(lastCall.result) : lastCall.result[k].asset = asset}

\* C20: for every asset with a non-empty price series the result has the
\* asset's series and its first point has value 0; an asset with an empty
\* price series is absent from the result
C20_FirstPointIsZero ==
    Normalizing =>
        \A i \in 1..Len(lastCall.assets) :
            IF lastCall.charts[i] # <<>>
            THEN /\ Cardinality(EntriesOf(lastCall.assets[i])) = 1
                 /\ \A k \in EntriesOf(lastCall.assets[i]) :
                        lastCall.result[k].series[1].value = 0
            ELSE EntriesOf(lastCall.assets[i]) = {}

\* the same for the series whose first price is not 0 and whose first
\* timestamp can be converted; an asset with an empty series is absent
C20_HoldsForPositiveBase ==
    Normalizing =>
        \A i \in 1..Len(lastCall.assets) :
            IF lastCall.charts[i] = <<>> THEN EntriesOf(lastCall.assets[i]) = {}
            ELSE lastCall.charts[i][1][2] # 0 /\ lastCall.charts[i][1][1] # <<>>
                 => /\ Cardinality(EntriesOf(lastCall.assets[i])) = 1
                    /\ \A k \in EntriesOf(lastCall.assets[i]) :
                        lastCall.result[k].series[1].value = 0

\* a series that starts at price 0: its first point has value -100
C20_ZeroBase ==
    /\ Normalizing
    /\ lastCall.charts[1] = << <<<<0>>, 0>>, <<<<60000>>, 100>> >>
    /\ lastCall.result[1].asset = s_bitcoin
    /\ lastCall.result[1].series[1].value = -10000
    /\ lastCall.result[1].series[2].value = 990000

\* a series whose first timestamp cannot be converted: the first point that
\* is returned is the second of the series
C20_FirstPointSkipped ==
    /\ Normalizing
    /\ lastCall.charts[1] = << <<<<>>, 100>>, <<<<60000>>, 150>> >>
    /\ Len(lastCall.result[1].series) = 1
    /\ lastCall.result[1].series[1].value = 5000

\* an asset without points is absent next to one with points
C20_EmptyAbsent ==
    /\ Normalizing
    /\ lastCall.charts[1] = <<>>
    /\ lastCall.charts[2] # <<>>
    /\ Len(lastCall.result) = 1
    /\ lastCall.result[1].asset = s_ethereum
    /\ lastCall.result[1].series[1].value = 0

---------------------------------------------------------------------------
(* C21 (SpecFile): the store on a path without a file or with other        *)
(* content.                                                                *)

\* the operations of the store and of the services built on it
StoreOps ==
    {"get_user_state", "add_position", "delete_position", "add_watch_asset",
     "remove_watch_asset", "get_watchlist", "add_alert"}

\* the last call ran on a path that did not hold the store's data
OnBadFile == lastCall.op \in StoreOps /\ lastCall.disk # "json"

\* the last call ended as it ends on the store {"users": {}}
AsOnEmptyStore ==
    /\ lastCall.error = "none"
    /\ lastCall.result = StoreCallOutcome("json", EmptyMap, lastCall.call).result

\* C21: every store operation called while the path holds no file or corrupt
\* content returns what it returns on the store {"users": {}}, without an
\* error
C21_ToleratesBadFile == OnBadFile => AsOnEmptyStore

\* the same for content that json.loads rejects
C21_HoldsForUndecodable ==
    lastCall.op \in StoreOps /\ lastCall.disk = "not_json" => AsOnEmptyStore

\* an add_position on undecodable content: the position is returned and the
\* path holds a store with that position only
C21_UndecodableReplaced ==
    /\ lastCall.op = "add_position"
    /\ lastCall.disk = "not_json"
    /\ lastCall.error = "none"
    /\ disk = "json"
    /\ DOMAIN file = {lastCall.user}
    /\ file[lastCall.user].positions = lastCall.result[1]

\* a store constructed on a path without a file: the path holds the empty
\* store afterwards
C21_ConstructedOnMissing ==
    /\ lastCall.op = "construct"
    /\ lastCall.disk = "absent"
    /\ disk = "json"
    /\ file = EmptyMap

\* the file is missing at the time of a call: the call raises
C21_MissingAtCall ==
    /\ lastCall.op = "get_user_state"
    /\ lastCall.disk = "absent"
    /\ lastCall.error = "FileNotFoundError"
    /\ disk = "absent"

\* the file holds JSON that is no object: the call raises
C21_NotAnObject ==
    /\ lastCall.op = "add_watch_asset"
    /\ lastCall.disk = "not_object"
    /\ lastCall.error = "AttributeError"

---------------------------------------------------------------------------
(* C22 (SpecLists): the watchlist under add_watch_asset and                *)
(* remove_watch_asset.                                                     *)

\* the watchlist a user has in the store
WatchlistOf(users, user) == UserState(users, user).watchlist

\* the canonical id a symbol resolves to, with the coin list of the test stub
ResolvedId(symbol) ==
    ResolveSingleAsset(Strip(Lower(symbol)), CurrentRegistry, clock, 1).out

DuplicateFree(list) == \A i, j \in 1..Len(list) : i # j => list[i] # list[j]

\* the step is a call of the method that returned
WatchStep(method) ==
    /\ lastCall' # lastCall
    /\ lastCall'.op = method
    /\ lastCall'.error = "none"

\* the list is a duplicate-free list of keys, an asset that is present is not
\* added again, and a removed asset is absent; key(symbol) is what identifies
\* the asset of a symbol
WatchlistStep(key(_)) ==
    /\ \A user \in Users :
        /\ DuplicateFree(WatchlistOf(file', user))
        /\ \A item \in Range(WatchlistOf(file', user)) : key(item) = item
    /\ WatchStep("add_watch_asset")
         /\ key(lastCall'.call.asset)
              \in {key(item) : item \in Range(WatchlistOf(file, lastCall'.user))}
         => WatchlistOf(file', lastCall'.user) = WatchlistOf(file, lastCall'.user)
    /\ WatchStep("remove_watch_asset")
         => key(lastCall'.call.asset)
              \notin {key(item) : item \in Range(WatchlistOf(file', lastCall'.user))}

\* C22: after every call the watchlist of every user is a duplicate-free
\* list of canonical ids, add_watch_asset of an asset whose canonical id is
\* in the list leaves the list unchanged, and after remove_watch_asset the
\* canonical id of the asset is not in the list
C22_CanonicalIdSet == [][WatchlistStep(ResolvedId)]_vars

\* the same with the lowercased symbol in the place of the canonical id
C22_HoldsForLowercased == [][WatchlistStep(Lower)]_vars

\* add_watch_asset("BTC") puts the ticker into the list
C22_TickerListed ==
    /\ lastCall.op = "add_watch_asset"
    /\ lastCall.call.asset = s_BTC
    /\ lastCall.result = <<<<s_btc>>>>
    /\ WatchlistOf(file, "alice") = <<s_btc>>

\* the same coin twice, as ticker and as id
C22_SameCoinTwice ==
    /\ lastCall.op = "add_watch_asset"
    /\ lastCall.call.asset = s_bitcoin
    /\ WatchlistOf(file, "alice") = <<s_btc, s_bitcoin>>

\* remove_watch_asset("BTC") leaves the id of the coin in the list
C22_RemovedTickerOnly ==
    /\ lastCall.op = "remove_watch_asset"
    /\ lastCall.call.asset = s_BTC
    /\ WatchlistOf(file, "alice") = <<s_bitcoin>>

\* an asset added in another letter case is not added again
C22_OtherCaseNotAdded ==
    /\ lastCall.op = "add_watch_asset"
    /\ lastCall.call.asset = s_BTC
    /\ lastCall.result = <<<<s_bitcoin, s_btc>>>>
    /\ WatchlistOf(file, "alice") = <<s_bitcoin, s_btc>>

---------------------------------------------------------------------------
(* C23 (SpecLists): add_position and delete_position, run one at a time.   *)

PositionsOf(users, user) == UserState(users, user).positions

IdsOf(positions) == {positions[i].id : i \in 1..Len(positions)}

\* the step is a call of the method that returned
ListStep(method) ==
    /\ lastCall' # lastCall
    /\ lastCall'.op = method
    /\ lastCall'.error = "none"

\* the step leaves the watchlist and the alerts of the caller and the state
\* of every other user as they are
OnlyPositionsChange ==
    /\ UserState(file', lastCall'.user).watchlist = UserState(file, lastCall'.user).watchlist
    /\ UserState(file', lastCall'.user).alerts = UserState(file, lastCall'.user).alerts
    /\ \A other \in Users \ {lastCall'.user} :
           UserState(file', other) = UserState(file, other)

\* list without its i-th element
WithoutIndex(list, i) == SubSeq(list, 1, i - 1) \o SubSeq(list, i + 1, Len(list))

\* add_position appends the position it returns, under a new id
AddPositionStep ==
    ListStep("add_position") =>
        LET before == PositionsOf(file, lastCall'.user)
            position == lastCall'.result[1][1]
        IN  /\ PositionsOf(file', lastCall'.user) = Append(before, position)
            /\ position.id \notin IdsOf(before)
            /\ position.asset = Lower(lastCall'.call.asset)
            /\ OnlyPositionsChange

\* delete_position removes the position with the id, if there is one
DeletePositionStep ==
    ListStep("delete_position") =>
        LET before == PositionsOf(file, lastCall'.user)
            after == PositionsOf(file', lastCall'.user)
            hits == {i \in 1..Len(before) : before[i].id = lastCall'.call.id}
        IN  /\ Cardinality(hits) <= 1
            /\ hits = {} => after = before
            /\ \A i \in hits : after = WithoutIndex(before, i)
            /\ OnlyPositionsChange

\* a read returns what is stored, and no step but a delete_position of the
\* user takes a position away or moves it
PositionsKept ==
    /\ ListStep("get_user_state") =>
           /\ lastCall'.result[1] = UserState(file', lastCall'.user)
           /\ file' = file
    /\ \A user \in Users :
           ~(ListStep("delete_position") /\ lastCall'.user = user) =>
               LET before == PositionsOf(file, user)
               IN  /\ Len(PositionsOf(file', user)) >= Len(before)
                   /\ SubSeq(PositionsOf(file', user), 1, Len(before)) = before

\* C23: add_position appends one position with an id no other position of the
\* user has and changes nothing else, the position is in every later read
\* until it is deleted, and delete_position removes the position with the
\* given id (nothing if there is none) and changes nothing else
C23_PositionFrame == [][AddPositionStep /\ DeletePositionStep /\ PositionsKept]_vars

\* a position added after another one of the same user, next to a watchlist
\* and an alert
C23_Witness ==
    /\ lastCall.op = "add_position"
    /\ lastCall.error = "none"
    /\ Len(PositionsOf(file, "alice")) = 2
    /\ PositionsOf(file, "alice")[2] = lastCall.result[1][1]
    /\ UserState(file, "alice").watchlist # <<>>

\* the first of two positions deleted: the second, the watchlist and the
\* alert are still there
C23_DeletedWitness ==
    /\ lastCall.op = "delete_position"
    /\ lastCall.call.id = 1
    /\ nextId = 4
    /\ PositionsOf(file, "bob") = <<>>
    /\ IdsOf(PositionsOf(file, "alice")) \in {{2}, {3}}
    /\ Len(UserState(file, "alice").alerts) = 1
    /\ UserState(file, "alice").watchlist # <<>>

\* a delete_position with an id no position has
C23_NothingDeleted ==
    /\ lastCall.op = "delete_position"
    /\ lastCall.call.id = 3
    /\ nextId = 3
    /\ Len(PositionsOf(file, "alice")) = 2

---------------------------------------------------------------------------
(* C24 (SpecEntry): the exceptions that leave the entry points.            *)

\* C24: every call of an entry point returns a record or raises ValueError
\* or MarketDataError, and a failed provider request is a MarketDataError
C24_DocumentedErrorsOnly ==
    lastCall.op # "init" =>
        /\ lastCall.error \in {"none", "ValueError", "MarketDataError"}
        /\ lastCall.op = "fundamentals_snapshot"
             /\ lastCall.upstream # <<>>
             /\ lastCall.upstream[Len(lastCall.upstream)] = "market_chart"
             /\ lastCall.outcome # "ok"
             => lastCall.error = "MarketDataError"

\* the same for the calls whose argument has a non-empty symbol left after
\* cleaning, and for resolve_symbol and summarize_prices on every argument
C24_HoldsForResolvedArgument ==
    lastCall.op # "init" /\ (lastCall.op = "fundamentals_snapshot" => lastCall.steps # <<>>)
        => /\ lastCall.error \in {"none", "ValueError", "MarketDataError"}
           /\ lastCall.op = "fundamentals_snapshot" /\ lastCall.outcome # "ok"
                => lastCall.error = "MarketDataError"

\* fundamentals_snapshot("") raises IndexError, before any request
C24_IndexErrorRaised ==
    /\ lastCall.op = "fundamentals_snapshot"
    /\ lastCall.input = <<s_empty>>
    /\ lastCall.error = "IndexError"
    /\ lastCall.upstream = <<>>

\* a response that is no JSON surfaces as MarketDataError
C24_UpstreamFailureWrapped ==
    /\ lastCall.op = "fundamentals_snapshot"
    /\ lastCall.input = <<s_BTC>>
    /\ lastCall.outcome = "invalid_json"
    /\ lastCall.error = "MarketDataError"

\* a snapshot is returned
C24_SnapshotReturned ==
    /\ lastCall.op = "fundamentals_snapshot"
    /\ lastCall.error = "none"
    /\ lastCall.result = <<[asset |-> s_bitcoin, price_stats |-> [min |-> <<5>>, max |-> <<7>>]]>>

---------------------------------------------------------------------------
(* C25 (SpecStore): concurrent updates for different users.                *)

\* t1 has returned from an add_position, and the only other call begun so
\* far is one of t2 for another user
ForDifferentUsers(t1, t2) ==
    /\ t1 # t2
    /\ nextId = 3
    /\ spc[t1] = "done"
    /\ spc[t2] # "idle"
    /\ sop[t1].kind = "add_position"
    /\ sop[t1].user # sop[t2].user

Persisted(t) == NewPosition(sop[t]) \in Range(UserState(file, sop[t].user).positions)

\* C25: once a call for user A has returned, A's update is in the persisted
\* store, whatever a concurrently running call for another user B does
C25_UsersDoNotInterfere ==
    \A t1 \in Threads, t2 \in Threads : ForDifferentUsers(t1, t2) => Persisted(t1)

\* the same as long as the call for B has not written
C25_HoldsUntilOtherWrites ==
    \A t1 \in Threads, t2 \in Threads :
        ForDifferentUsers(t1, t2) /\ spc[t2] \notin {"return", "done"} => Persisted(t1)

\* both calls have returned, B's write was the later one, and the store has
\* no record of A
C25_UpdateLost ==
    \E t1 \in Threads, t2 \in Threads :
        /\ ForDifferentUsers(t1, t2)
        /\ spc[t2] = "done"
        /\ sop[t2].kind = "add_position"
        /\ lastWrite.thread = t2
        /\ DOMAIN file = {sop[t2].user}

\* both calls have returned and both updates are in the store
C25_BothKept ==
    \E t1 \in Threads, t2 \in Threads :
        /\ ForDifferentUsers(t1, t2)
        /\ spc[t2] = "done"
        /\ sop[t2].kind = "add_position"
        /\ Persisted(t1)
        /\ Persisted(t2)

---------------------------------------------------------------------------
(* C26 (SpecService): conditions stored with a null optional field.        *)

\* the status of an evaluated price_move alert whose direction is null is
\* the one of the same condition with the direction given
NullDirectionAs(direction) ==
    Evaluated =>
        \A i \in 1..Len(lastCall.result) :
            LET alert == lastCall.result[i]
                condition == [alert.condition EXCEPT !.direction = <<direction>>]
                targets == TargetsOf(condition, UserState(file, "alice").positions)
            IN  alert.condition.type = "price_move" /\ alert.condition.direction = <<>>
                => (alert.status = "triggered"
                    <=> MatchingTargets(condition, lastCall.market, targets) # <<>>)

\* the same for an indicator_threshold alert whose operator is null
NullOperatorAs(operator) ==
    Evaluated =>
        \A i \in IndicatorAlerts :
            LET alert == lastCall.result[i]
                value == alert.last_observed
                threshold == alert.condition.threshold[1] * 100
            IN  alert.condition.operator = <<>>
                => (alert.status = "triggered"
                    <=> /\ value # <<>>
                        /\ IF operator = "lt" THEN value[1] < threshold
                           ELSE value[1] > threshold)

\* C26: a price_move alert stored with direction null is evaluated as a
\* "drop" alert, and an indicator_threshold alert stored with operator null
\* as an "lt" alert
C26_NullFieldsDefaulted == NullDirectionAs("drop") /\ NullOperatorAs("lt")

\* what holds: they are evaluated as "rise" and as "gt"
C26_EvaluatedAsRiseAndGt == NullDirectionAs("rise") /\ NullOperatorAs("gt")

\* bitcoin fell 6 % within the window, and the alert for a move of 5 % with
\* direction null stays armed
C26_DropNotTriggered ==
    /\ Evaluated
    /\ lastCall.market = 1
    /\ WindowChange(1, s_btc, 60) = -6
    /\ \E i \in 1..Len(lastCall.result) :
        /\ lastCall.result[i].condition = Conditions[7]
        /\ lastCall.result[i].status = "armed"

\* bitcoin rose, and the same alert is triggered
C26_RiseTriggered ==
    /\ Evaluated
    /\ lastCall.market = 3
    /\ WindowChange(3, s_btc, 60) > 5
    /\ \E i \in 1..Len(lastCall.result) :
        /\ lastCall.result[i].condition = Conditions[7]
        /\ lastCall.result[i].status = "triggered"

---------------------------------------------------------------------------
(* C27 (SpecSeries): the span of chart that analyze requests.              *)

\* the last call was an analyze on the complete series of the requested days
AnalyzedSpan == lastCall.op = "analyze_span"

\* C27: for every supported timeframe the complete series of the requested
\* days has at least period + 2 = 16 buckets, and the RSI of period 14 is
\* computed
C27_SpanHoldsEnoughBuckets ==
    AnalyzedSpan =>
        /\ lastCall.days = Max(1, TimeframeMinutes(lastCall.timeframe) \div 1440 + 1)
        /\ Len(lastCall.result.closes) >= rsi_period + 2
        /\ lastCall.result.value # <<>>

\* the same for the timeframe 1h, whose day of chart has 24 or 25 buckets
C27_HoldsForOneHour ==
    AnalyzedSpan /\ lastCall.timeframe = "1h" =>
        /\ lastCall.days = 1
        /\ Len(lastCall.result.closes) \in {24, 25}
        /\ lastCall.result.value # <<>>
        /\ lastCall.result.state # "unknown"

\* the number of buckets is at most the span divided by the timeframe, plus
\* the bucket the series starts in
C27_BucketsOfSpan ==
    AnalyzedSpan =>
        Len(lastCall.result.closes)
            <= (lastCall.days * 1440) \div TimeframeMinutes(lastCall.timeframe) + 1

\* timeframe 4h: one day is requested, its series has 7 buckets, and the
\* outcome is insufficient data
C27_FourHoursInsufficient ==
    /\ AnalyzedSpan
    /\ lastCall.timeframe = "4h"
    /\ lastCall.days = 1
    /\ lastCall.step = HalfHourMs
    /\ Len(lastCall.result.closes) = 7
    /\ lastCall.result.value = <<>>
    /\ lastCall.result.state = "unknown"

\* timeframe 1d: two days are requested, with 3 buckets
C27_OneDayInsufficient ==
    /\ AnalyzedSpan
    /\ lastCall.timeframe = "1d"
    /\ lastCall.days = 2
    /\ Len(lastCall.result.closes) = 3
    /\ lastCall.result.value = <<>>

\* timeframe 1h: the RSI is computed
C27_OneHourComputed ==
    /\ AnalyzedSpan
    /\ lastCall.timeframe = "1h"
    /\ lastCall.start = 0
    /\ Len(lastCall.result.closes) = 25
    /\ lastCall.result.value # <<>>

---------------------------------------------------------------------------
(* C28 (SpecOrder): resolving the id that a resolution returned.           *)

\* the last call was a resolution
ResolvedListed == lastCall.op = "resolve_listed"

\* the resolution of id on the registry as it is; a refresh, if one is due,
\* returns the list the registry was loaded from
ResolvedAgain(id) ==
    ResolveOnList(Strip(Lower(id)), CurrentRegistry, clock, LoadedOrder).out

\* C28: the id a resolution returns resolves to itself
C28_Idempotent == ResolvedListed => ResolvedAgain(lastCall.result) = lastCall.result

\* the same for an id the registry lookup returned that is no key of the
\* override table, and for an override value that is a listed id or no
\* listed ticker
C28_Amended ==
    ResolvedListed =>
        IF Strip(Lower(lastCall.input)) \in DOMAIN COMMON_ASSET_OVERRIDES
        THEN lastCall.result \in coin_ids \/ lastCall.result \notin DOMAIN symbol_cache
             => ResolvedAgain(lastCall.result) = lastCall.result
        ELSE lastCall.result \notin DOMAIN COMMON_ASSET_OVERRIDES
             => ResolvedAgain(lastCall.result) = lastCall.result

\* the ticker lnk resolves to the id link, which is the ticker of chainlink
\* and resolves to itself
C28_Witness ==
    /\ ResolvedListed
    /\ lastCall.input = s_lnk
    /\ lastCall.result = s_link
    /\ s_link \in coin_ids
    /\ Candidates(CurrentRegistry, s_link) = <<s_chainlink>>
    /\ ResolvedAgain(s_link) = s_link

\* the ticker ether resolves to the id eth, which resolves to ethereum
C28_OverrideKeyReturned ==
    /\ ResolvedListed
    /\ lastCall.input = s_ether
    /\ lastCall.result = s_eth
    /\ ResolvedAgain(s_eth) = s_ethereum

\* sol resolves to solana, which is the ticker of solana-2 and no listed id
C28_OverrideValueIsTicker ==
    /\ ResolvedListed
    /\ lastCall.input = s_sol
    /\ lastCall.result = s_solana
    /\ ResolvedAgain(s_solana) = s_solana_2

---------------------------------------------------------------------------
(* C29 (SpecOrder): the order of the coin list.                            *)

\* the registry loaded from the list in the reference order
ReferenceRegistry == RefreshLoaded(CurrentRegistry, clock, ReferenceOrder)

\* the tickers of the list
ListedTickers == {ReferenceOrder[i].symbol : i \in 1..Len(ReferenceOrder)}

\* the registry is loaded from one of the orders of the list
LoadedFromList == lastCall.op = "resolve_listed" /\ lastCall.coins \in ListedOrders

\* resolution of the ticker on the loaded registry is the one on the
\* registry of the reference order
SameAsReference(ticker) ==
    ResolveOnList(ticker, CurrentRegistry, clock, lastCall.coins).out
        = ResolveOnList(ticker, ReferenceRegistry, clock, ReferenceOrder).out

\* C29: whatever the order in which the list of coins was returned, every
\* ticker resolves to the id it resolves to for the reference order
C29_OrderIndependent ==
    LoadedFromList => \A ticker \in ListedTickers : SameAsReference(ticker)

\* the same for the tickers that do not have two candidates that start with
\* the ticker
C29_HoldsWithoutPrefixTies ==
    LoadedFromList =>
        \A ticker \in ListedTickers :
            Cardinality({id \in Range(Candidates(CurrentRegistry, ticker)) :
                            StartsWith(id, ticker)}) <= 1
            => SameAsReference(ticker)

\* loaded with abc-x listed before abcoin, the ticker abc resolves to abc-x;
\* in the reference order it resolves to abcoin
C29_OrderDecides ==
    /\ LoadedFromList
    /\ lastCall.input = s_abc
    /\ Candidates(CurrentRegistry, s_abc) = <<s_abc_x, s_abcoin>>
    /\ lastCall.result = s_abc_x
    /\ ResolveOnList(s_abc, ReferenceRegistry, clock, ReferenceOrder).out = s_abcoin

\* the candidates of uni do not start with it: the smallest is returned in
\* either order
C29_SortedPick ==
    /\ LoadedFromList
    /\ lastCall.input = s_uni
    /\ Candidates(CurrentRegistry, s_uni) = <<s_zuni, s_auni>>
    /\ Candidates(ReferenceRegistry, s_uni) = <<s_zuni, s_auni>>
    /\ lastCall.result = s_auni

---------------------------------------------------------------------------
(* C30 (SpecCompare): the comparisons compare_assets returns.              *)

\* the last call was a compare_assets whose price request did not fail
Compared == cacheCall.op = "compare_assets" /\ ~cacheCall.failed

\* spread is base price minus target price when both quotes exist and the
\* target price is not 0, and null otherwise; the prices are those of one
\* payload of the provider
SpreadOf(comparison) ==
    /\ comparison.spread =
         IF comparison.base_price # <<>> /\ comparison.target_price # <<>>
            /\ comparison.target_price[1] # 0
         THEN <<comparison.base_price[1] - comparison.target_price[1]>>
         ELSE <<>>
    /\ \E v \in Versions :
        /\ comparison.base_price = DictGet(PricePayloads[v], comparison.base)
        /\ comparison.target_price = DictGet(PricePayloads[v], comparison.target)

\* one comparison per element of targets, in order, of the resolved base and
\* the resolved target at the same position
OnePerTarget ==
    /\ cacheCall.outcome = "returned"
    /\ Len(cacheCall.value) = Len(cacheCall.args.targets)
    /\ \A i \in 1..Len(cacheCall.value) :
        /\ cacheCall.args.base # s_empty
             => cacheCall.value[i].base = ResolvedId(cacheCall.args.base)
        /\ i <= Len(cacheCall.args.targets) /\ cacheCall.args.targets[i] # s_empty
             => cacheCall.value[i].target = ResolvedId(cacheCall.args.targets[i])
        /\ SpreadOf(cacheCall.value[i])

\* C30: compare_assets returns one comparison per element of targets, in
\* order, with the resolved base and the resolved target of the position
\* and the spread of their prices, for every argument list
C30_OnePerTarget == Compared => OnePerTarget

\* the same for the argument lists without an empty string
C30_HoldsWithoutEmptyStrings ==
    Compared /\ cacheCall.args.base # s_empty
             /\ s_empty \notin Range(cacheCall.args.targets)
        => OnePerTarget

\* the spread rule holds for every comparison that is returned
C30_SpreadRule ==
    Compared /\ cacheCall.outcome = "returned"
        => \A i \in 1..Len(cacheCall.value) : SpreadOf(cacheCall.value[i])

\* btc against eth and sol: two comparisons, the spread of the second null
\* because the price of solana is 0
C30_TwoComparisons ==
    /\ Compared
    /\ cacheCall.args = [base |-> s_BTC, targets |-> <<s_eth, s_sol>>]
    /\ cacheCall.value =
         << [base |-> s_bitcoin, target |-> s_ethereum, base_price |-> <<100>>,
             target_price |-> <<40>>, spread |-> <<60>>],
            [base |-> s_bitcoin, target |-> s_solana, base_price |-> <<100>>,
             target_price |-> <<0>>, spread |-> <<>>] >>

\* targets ["", "eth"]: one comparison, at the position of "" and against
\* ethereum
C30_TargetsShifted ==
    /\ Compared
    /\ cacheCall.args = [base |-> s_BTC, targets |-> <<s_empty, s_eth>>]
    /\ Len(cacheCall.value) = 1
    /\ cacheCall.value[1].target = s_ethereum

\* base "": the first target is taken as the base
C30_TargetAsBase ==
    /\ Compared
    /\ cacheCall.args = [base |-> s_empty, targets |-> <<s_eth, s_sol>>]
    /\ Len(cacheCall.value) = 1
    /\ cacheCall.value[1].base = s_ethereum
    /\ cacheCall.value[1].target = s_solana

\* base "" and no target: IndexError
C30_NothingToCompare ==
    /\ cacheCall.op = "compare_assets"
    /\ cacheCall.args = [base |-> s_empty, targets |-> <<>>]
    /\ cacheCall.outcome = "IndexError"

=============================================================================
